---- MODULE Spec2Model ----
(***************************************************************************)
(* Model of the annotation language server (annotation_ls_py): the span    *)
(* scanner (utils.py), the annotation store (db_manager.py), the note      *)
(* store (note_manager.py), the createAnnotation / deleteAnnotation        *)
(* commands (server.py) and the project forest (workspace_manager.py).     *)
(*                                                                         *)
(* A document is a sequence of lines, a line a sequence of characters.     *)
(* A character is a record [ch, by]: ch is the character the code sees     *)
(* ("L" the left bracket, "R" the right bracket, "x" any other character); *)
(* by is history only (for a left bracket inserted by createAnnotation the *)
(* row id of the record that command inserted, 0 for every other           *)
(* character) and is never read by a definition that models code.          *)
(*                                                                         *)
(* The store is the view of the project's single sqlite connection: the    *)
(* code never rolls back, so every executed statement stays visible to     *)
(* all later statements of that connection, committed or not.              *)
(***************************************************************************)
EXTENDS Integers, Sequences, FiniteSets, TLC

\* ---------------------------------------------------------------- bounds
MaxAnnotations == 3   \* rows of table annotations (Spec, SpecStore)
MaxSecond == 2        \* rows of the second document among them (Spec)
MaxFaulty == 2        \* rows of table annotations (SpecEnv)
MaxClock == 1         \* seconds the clock advances
MaxTyped == 1         \* brackets in a document beyond those of its rows (SpecEnv)
MaxId == 2            \* annotation ids passed to the store directly (SpecStore)
HistLen == 2          \* direct store calls remembered (SpecStore)
MaxText == 6          \* characters typed into the scanned document (SpecScan)
MaxProjects == 5      \* Workspace objects constructed (SpecForest)
MaxRebuilt == 3       \* Workspace objects constructed (SpecFolders, SpecOwner)
MaxOwned == 1         \* spans of a document (SpecOwner)
MaxInit == 2          \* initialize requests (SpecConfig)
MaxConfigText == 2    \* characters typed into the scanned document (SpecConfig)
NumRoots == 6         \* project roots a DatabaseManager is pointed at (SpecPool)
MaxCalls == 2         \* handler calls the state has room for (SpecServer)
MaxServed == 2        \* rows of table annotations (SpecServer)
MaxNavigated == 2     \* rows of table annotations (SpecNav)
MaxPairs == 1         \* pairs of brackets typed by hand (SpecNav)
MaxLag == 2           \* edits issued and not applied yet (SpecLag)
MaxLagged == 3        \* rows of table annotations, pairs of brackets (SpecLag)
MaxNote == 6          \* characters typed into a note document (SpecNotes)
MaxSelected == 3      \* characters of the selected text of a note (SpecNotes)

\* -------------------------------------------------------- configuration
\* the module config: manager is _ConfigManager._config as a list (empty:
\* None), config the module-level name config
VARIABLE cfg

\* DEFAULT_CONFIG: "L" and "R" stand for the two default delimiters
DEFAULT_CONFIG == [left_bracket |-> "L", right_bracket |-> "R"]

\* the initialization options a client sends: a dict over the two
\* recognized keys (the empty dict also stands for None, both are falsy)
OptionKeys == {"leftBracket", "rightBracket"}
Options == {[k \in S |-> IF k = "leftBracket" THEN "[" ELSE "]"] : S \in SUBSET OptionKeys}

\* dict.get(key, default)
dict_get(data, key, default) == IF key \in DOMAIN data THEN data[key] ELSE default

\* AnnotationConfig.from_dict
from_dict(data) ==
    IF DOMAIN data = {} THEN DEFAULT_CONFIG
    ELSE [left_bracket |-> dict_get(data, "leftBracket", DEFAULT_CONFIG.left_bracket),
          right_bracket |-> dict_get(data, "rightBracket", DEFAULT_CONFIG.right_bracket)]

\* the property _ConfigManager.config: a first read sets the default
config_property(manager) ==
    IF manager = <<>>
    THEN [manager |-> <<DEFAULT_CONFIG>>, value |-> DEFAULT_CONFIG]
    ELSE [manager |-> manager, value |-> manager[1]]

\* the module after its import: _config_manager = _ConfigManager() and then
\* config = _config_manager.config
ModuleConfig ==
    LET read == config_property(<<>>) IN [manager |-> read.manager, config |-> read.value]

\* _ConfigManager.initialize
initialize(manager, options) ==
    IF manager # <<>> THEN manager ELSE <<from_dict(options)>>

\* an initialize_config that rebinds the module-level name on every call
initialize_config_Rebind(c, options) ==
    [manager |-> <<from_dict(options)>>, config |-> from_dict(options)]

\* initialize_config: the module-level name config is never bound again
initialize_config(c, options) == [c EXCEPT !.manager = initialize(@, options)]

\* ------------------------------------------------------------- constants
\* the delimiters the scanner and the commands read: config.left_bracket
\* and config.right_bracket of the name imported from the module config
left_bracket == cfg.config.left_bracket
right_bracket == cfg.config.right_bracket

\* DatabaseManager.max_connections: the connections a pool keeps open
max_connections == 5

F1 == "f1"
F2 == "f2"
Files == {F1, F2}

NewLine == [ch |-> "\n", by |-> 0]

\* text of the two documents of the project before any command; as in
\* TextDocument.lines a line keeps its line ending
InitLines(f) ==
    IF f = F1 THEN << <<NewLine>> >> ELSE << <<NewLine>>, <<NewLine>> >>

\* ------------------------------------------------------- python helpers
\* python tuple comparison a < b: lexicographic, a proper prefix is smaller
RECURSIVE TupleLess(_, _)
TupleLess(a, b) ==
    IF b = <<>> THEN FALSE
    ELSE IF a = <<>> THEN TRUE
    ELSE IF Head(a) < Head(b) THEN TRUE
    ELSE IF Head(a) > Head(b) THEN FALSE
    ELSE TupleLess(Tail(a), Tail(b))

\* python sorted() on a list of tuples
Sorted(s) == SortSeq(s, TupleLess)

\* bisect.bisect_left(a, x): binary search for the leftmost insertion point
RECURSIVE BisectLoop(_, _, _, _)
BisectLoop(a, x, lo, hi) ==
    IF lo < hi
    THEN LET mid == (lo + hi) \div 2 IN
         IF TupleLess(a[mid + 1], x)
         THEN BisectLoop(a, x, mid + 1, hi)
         ELSE BisectLoop(a, x, lo, mid)
    ELSE lo

bisect_left(a, x) == BisectLoop(a, x, 0, Len(a))

\* list.index(v): 0-based index of the first element equal to v
ListIndex(s, v) == (CHOOSE i \in 1..Len(s) : s[i] = v /\ \A j \in 1..(i - 1) : s[j] # v) - 1

\* ---------------------------------------------------------- span scanner
\* find_annotation_ranges_raw: one pass over lines then characters with a
\* stack of open positions; ok = FALSE is the None result.
RECURSIVE ScanLoop(_, _, _, _, _)
ScanLoop(lines, ln, i, stack, anns) ==
    IF ln > Len(lines)
    THEN IF stack # <<>> THEN [ok |-> FALSE, spans |-> <<>>]
         ELSE [ok |-> TRUE, spans |-> anns]
    ELSE IF i > Len(lines[ln])
    THEN ScanLoop(lines, ln + 1, 1, stack, anns)
    ELSE LET char == lines[ln][i].ch
             stack1 == IF char = left_bracket
                       THEN Append(stack, <<ln - 1, i - 1>>)
                       ELSE stack
         IN  IF char = right_bracket
             THEN IF stack1 = <<>>
                  THEN [ok |-> FALSE, spans |-> <<>>]
                  ELSE LET left_pos == stack1[Len(stack1)]
                           right_pos == <<ln - 1, i - 1>>
                       IN  ScanLoop(lines, ln, i + 1,
                                    SubSeq(stack1, 1, Len(stack1) - 1),
                                    Append(anns, left_pos \o right_pos))
             ELSE ScanLoop(lines, ln, i + 1, stack1, anns)

\* a scanner that reports an unbalanced document as a document without spans
find_annotation_ranges_raw_Lenient(lines) ==
    [ok |-> TRUE, spans |-> ScanLoop(lines, 1, 1, <<>>, <<>>).spans]

find_annotation_ranges_raw(lines) == ScanLoop(lines, 1, 1, <<>>, <<>>)

\* a find_annotation_ranges that leaves the list in closing order
find_annotation_ranges_Unsorted(lines) == find_annotation_ranges_raw(lines)

\* find_annotation_ranges: the raw list sorted by (start line, start char)
find_annotation_ranges(lines) ==
    LET annotations == find_annotation_ranges_raw(lines) IN
    IF ~annotations.ok THEN annotations
    ELSE [ok |-> TRUE, spans |-> Sorted(annotations.spans)]

\* a count of the spans that end before the position
get_annotation_id_before_position_Ends(lines, position) ==
    LET annotations == find_annotation_ranges(lines) IN
    IF ~annotations.ok THEN [ok |-> FALSE, id |-> 0]
    ELSE [ok |-> TRUE,
          id |-> Cardinality({i \in 1..Len(annotations.spans) :
                    TupleLess(<<annotations.spans[i][3], annotations.spans[i][4]>>,
                              position)})]

\* get_annotation_id_before_position
get_annotation_id_before_position(lines, position) ==
    LET annotations == find_annotation_ranges(lines) IN
    IF ~annotations.ok THEN [ok |-> FALSE, id |-> 0]
    ELSE [ok |-> TRUE, id |-> bisect_left(annotations.spans, position)]

\* a containment test that compares the lines only
Contains_LinesOnly(annotation, position) ==
    annotation[1] <= position[1] /\ position[1] <= annotation[3]

\* the containment test of get_annotation_at_position
Contains(annotation, position) ==
    LET start_line == annotation[1]
        start_char == annotation[2]
        end_line == annotation[3]
        end_char == annotation[4]
        pos_line == position[1]
        pos_char == position[2]
    IN  /\ start_line <= pos_line
        /\ pos_line <= end_line
        /\ (start_line # pos_line \/ start_char <= pos_char)
        /\ (end_line # pos_line \/ pos_char <= end_char)

\* a get_annotation_at_position that numbers the span in closing order
get_annotation_at_position_RawIndex(lines, position) ==
    LET annotation_R == find_annotation_ranges_raw(lines) IN
    IF ~annotation_R.ok THEN [ok |-> FALSE, id |-> 0]
    ELSE LET hits == {i \in 1..Len(annotation_R.spans) :
                        Contains(annotation_R.spans[i], position)}
         IN  IF hits = {} THEN [ok |-> FALSE, id |-> 0]
             ELSE [ok |-> TRUE, id |-> CHOOSE i \in hits : \A j \in hits : i <= j]

\* get_annotation_at_position: rank in position order of the first span in
\* closing order that contains the position
get_annotation_at_position(lines, position) ==
    LET annotation_R == find_annotation_ranges_raw(lines) IN
    IF ~annotation_R.ok THEN [ok |-> FALSE, id |-> 0]
    ELSE LET annotation_L == Sorted(annotation_R.spans)
             hits == {i \in 1..Len(annotation_R.spans) :
                        Contains(annotation_R.spans[i], position)}
         IN  IF hits = {} THEN [ok |-> FALSE, id |-> 0]
             ELSE LET first == CHOOSE i \in hits : \A j \in hits : i <= j
                  IN  [ok |-> TRUE,
                       id |-> ListIndex(annotation_L, annotation_R.spans[first]) + 1]

\* get_text_in_range: the selected characters without the brackets
FilterBrackets(s) == SelectSeq(s, LAMBDA c : c.ch # left_bracket /\ c.ch # right_bracket)

RECURSIVE JoinLines(_)
JoinLines(ss) ==
    IF ss = <<>> THEN <<>>
    ELSE IF Len(ss) = 1 THEN ss[1]
    ELSE ss[1] \o <<"\n">> \o JoinLines(Tail(ss))

Chars(s) == [i \in 1..Len(s) |-> s[i].ch]

get_text_in_range(lines, start, end) ==
    IF start[1] = end[1]
    THEN Chars(FilterBrackets(SubSeq(lines[start[1] + 1], start[2] + 1, end[2])))
    ELSE JoinLines([k \in 1..(end[1] - start[1] + 1) |->
            LET i == start[1] + k - 1
                line == IF i = start[1]
                        THEN SubSeq(lines[i + 1], start[2] + 1, Len(lines[i + 1]))
                        ELSE IF i = end[1]
                        THEN SubSeq(lines[i + 1], 1, end[2])
                        ELSE lines[i + 1]
            IN  Chars(FilterBrackets(line))])

\* --------------------------------------------------------- buffer edits
\* the positions an editor can put a cursor or a selection end at
LineEnd(line) ==
    IF line # <<>> /\ line[Len(line)].ch = "\n" THEN Len(line) - 1 ELSE Len(line)

Positions(lines) ==
    UNION {{<<l, c>> : c \in 0..LineEnd(lines[l + 1])} : l \in 0..(Len(lines) - 1)}

PosLeq(a, b) == a = b \/ TupleLess(a, b)

InsertAt(lines, pos, c) ==
    LET line == lines[pos[1] + 1] IN
    [lines EXCEPT ![pos[1] + 1] =
        SubSeq(line, 1, pos[2]) \o <<c>> \o SubSeq(line, pos[2] + 1, Len(line))]

RemoveAt(lines, pos) ==
    LET line == lines[pos[1] + 1] IN
    [lines EXCEPT ![pos[1] + 1] =
        SubSeq(line, 1, pos[2]) \o SubSeq(line, pos[2] + 2, Len(line))]

\* an edit that inserts the left bracket first and then the right bracket
\* at the end position of the text before the edit
ApplyCreateEdit_LeftFirst(lines, start, end, by) ==
    InsertAt(InsertAt(lines, start, [ch |-> left_bracket, by |-> by]),
             end, [ch |-> right_bracket, by |-> 0])

\* the WorkspaceEdit of create_annotation as the editor applies it: both
\* positions refer to the text before the edit, the left bracket goes in at
\* the selection start and the right bracket at the selection end (after
\* the left one when the selection is empty)
ApplyCreateEdit(lines, start, end, by) ==
    InsertAt(InsertAt(lines, end, [ch |-> right_bracket, by |-> 0]),
             start, [ch |-> left_bracket, by |-> by])

\* the WorkspaceEdit of delete_annotation: the character at the start and
\* the character at the end of the range are removed
ApplyDeleteEdit(lines, range) ==
    RemoveAt(RemoveAt(lines, <<range[3], range[4]>>), <<range[1], range[2]>>)

\* ------------------------------------------------------ annotation store
\* A store value st is [files, annotations, notes]:
\*   files        rows [id, path] of table files (path UNIQUE)
\*   annotations  rows [file_id, annotation_id, note_file, by]; the row id
\*                column is never read by the code and is left out; by is
\*                history only: the mark shared with the left bracket that
\*                the creating command inserted
\*   notes        the documents of .annotation/notes, note file name ->
\*                [file, id, text] (front matter file and id, selected text)
\* A note file name is the second the record was created in.

\* sqlite row id of an INTEGER PRIMARY KEY column: one more than the largest
NextRowId(rows) ==
    IF rows = {} THEN 1
    ELSE (CHOOSE r \in rows : \A q \in rows : q.id <= r.id).id + 1

\* history only: the smallest mark no row carries
FreshMark(rows) ==
    CHOOSE m \in 1..(Cardinality(rows) + 1) :
        /\ \A r \in rows : r.by # m
        /\ \A k \in 1..(m - 1) : \E r \in rows : r.by = k

\* SELECT id FROM files WHERE path = ?
FileRows(st, path) == {r \in st.files : r.path = path}
FileId(st, path) == (CHOOSE r \in FileRows(st, path) : TRUE).id

\* the rows of a file
RowsOf(st, path) ==
    IF FileRows(st, path) = {} THEN {}
    ELSE {a \in st.annotations : a.file_id = FileId(st, path)}

\* a table without the UNIQUE constraint
KeyTaken_Never(annotations, file_id, annotation_id) == FALSE

\* UNIQUE (file_id, annotation_id): would a row with this key collide
KeyTaken(annotations, file_id, annotation_id) ==
    \E a \in annotations : a.file_id = file_id /\ a.annotation_id = annotation_id

\* DatabaseManager.get_annotation_note_file
get_annotation_note_file(st, path, annotation_id) ==
    LET hit == {a \in RowsOf(st, path) : a.annotation_id = annotation_id} IN
    IF hit = {} THEN [found |-> FALSE, note_file |-> 0]
    ELSE [found |-> TRUE, note_file |-> (CHOOSE a \in hit : TRUE).note_file]

\* note_{now:%Y%m%d_%H%M%S}.md
NoteFileName(clock) == clock

\* DatabaseManager.create_annotation: raised = TRUE is the DatabaseError;
\* the files row inserted before a failing INSERT stays in the connection
db_create_annotation(st, path, annotation_id, clock) ==
    LET files1 == IF FileRows(st, path) = {}
                  THEN st.files \cup {[id |-> NextRowId(st.files), path |-> path]}
                  ELSE st.files
        st1 == [st EXCEPT !.files = files1]
        file_id == FileId(st1, path)
        note_file == NoteFileName(clock)
        row == [file_id |-> file_id, annotation_id |-> annotation_id,
                note_file |-> note_file, by |-> FreshMark(st.annotations)]
    IN  IF KeyTaken(st.annotations, file_id, annotation_id)
        THEN [raised |-> TRUE, note_file |-> note_file, by |-> 0, st |-> st1]
        ELSE [raised |-> FALSE, note_file |-> note_file, by |-> row.by,
              st |-> [st1 EXCEPT !.annotations = @ \cup {row}]]

\* delete_annotation with annotation_id >= ? in place of annotation_id = ?
db_delete_annotation_From(st, path, annotation_id) ==
    LET hit == {a \in RowsOf(st, path) : a.annotation_id >= annotation_id} IN
    [ret |-> hit # {}, st |-> [st EXCEPT !.annotations = @ \ hit]]

\* DatabaseManager.delete_annotation
db_delete_annotation(st, path, annotation_id) ==
    LET hit == {a \in RowsOf(st, path) : a.annotation_id = annotation_id} IN
    [ret |-> hit # {}, st |-> [st EXCEPT !.annotations = @ \ hit]]

\* DatabaseManager.get_note_files_from_source_uri and the SELECT of
\* increase_annotation_ids: rows in ascending / descending annotation_id
RECURSIVE OrderAsc(_)
OrderAsc(rows) ==
    IF rows = {} THEN <<>>
    ELSE LET r == CHOOSE r \in rows :
                    \A q \in rows : r.annotation_id <= q.annotation_id
         IN  <<r>> \o OrderAsc(rows \ {r})

Reverse(s) == [i \in 1..Len(s) |-> s[Len(s) + 1 - i]]

OrderDesc(rows) == Reverse(OrderAsc(rows))

\* get_note_files_from_source_uri with ORDER BY a.annotation_id DESC
get_note_files_from_source_uri_Desc(st, path) ==
    LET rows == OrderDesc(RowsOf(st, path)) IN
    [i \in 1..Len(rows) |-> rows[i].note_file]

\* DatabaseManager.get_note_files_from_source_uri: the note files of the
\* rows of a file, ORDER BY annotation_id
get_note_files_from_source_uri(st, path) ==
    LET rows == OrderAsc(RowsOf(st, path)) IN
    [i \in 1..Len(rows) |-> rows[i].note_file]

\* utils.update_note_aid; raises = TRUE when reading or writing the file fails
update_note_aid(notes, note_file, annotation_id, ioerror) ==
    IF note_file \notin DOMAIN notes THEN [raised |-> FALSE, notes |-> notes]
    ELSE IF ioerror THEN [raised |-> TRUE, notes |-> notes]
    ELSE [raised |-> FALSE, notes |-> [notes EXCEPT ![note_file].id = annotation_id]]

\* mutants of RenumberList: annotation_id > ? in place of >= ?; the list
\* left in descending order whatever the sign of the increment
RenumberList_Strict(st, file_id, from_id, increment) ==
    LET annotation_ids == OrderDesc({a \in st.annotations :
                                      a.file_id = file_id /\ a.annotation_id > from_id})
    IN  IF increment < 0 THEN Reverse(annotation_ids) ELSE annotation_ids

RenumberList_NoReverse(st, file_id, from_id, increment) ==
    OrderDesc({a \in st.annotations : a.file_id = file_id /\ a.annotation_id >= from_id})

\* the list increase_annotation_ids walks: SELECT ... ORDER BY annotation_id
\* DESC, reversed when increment < 0
RenumberList(st, file_id, from_id, increment) ==
    LET annotation_ids == OrderDesc({a \in st.annotations :
                                      a.file_id = file_id /\ a.annotation_id >= from_id})
    IN  IF increment < 0 THEN Reverse(annotation_ids) ELSE annotation_ids

\* the loop of increase_annotation_ids over annotation_ids[i..]; failAt is
\* the iteration whose note file access raises (0: none)
RECURSIVE RenumberLoop(_, _, _, _, _, _)
RenumberLoop(st, file_id, annotation_ids, i, increment, failAt) ==
    IF i > Len(annotation_ids) THEN [ret |-> TRUE, err |-> "none", st |-> st]
    ELSE LET annotation_id == annotation_ids[i].annotation_id
             note_file == annotation_ids[i].note_file
             hit == {a \in st.annotations :
                       a.file_id = file_id /\ a.annotation_id = annotation_id}
             moved == {[a EXCEPT !.annotation_id = @ + increment] : a \in hit}
             rest == st.annotations \ hit
         IN  IF \E m \in moved : KeyTaken(rest, m.file_id, m.annotation_id)
             THEN [ret |-> FALSE, err |-> "integrity", st |-> st]
             ELSE LET st1 == [st EXCEPT !.annotations = rest \cup moved]
                      upd == update_note_aid(st1.notes, note_file,
                                             annotation_id + increment, failAt = i)
                  IN  IF upd.raised THEN [ret |-> FALSE, err |-> "io", st |-> st1]
                      ELSE RenumberLoop([st1 EXCEPT !.notes = upd.notes], file_id,
                                        annotation_ids, i + 1, increment, failAt)

\* increase_annotation_ids without the test of the files row: the UPDATE
\* matches no row and the call reports success
increase_annotation_ids_NoFileTest(st, path, from_id, increment, failAt) ==
    IF FileRows(st, path) = {}
    THEN [ret |-> TRUE, err |-> "none", st |-> st, order |-> <<>>]
    ELSE LET file_id == FileId(st, path)
             annotation_ids == RenumberList(st, file_id, from_id, increment)
             r == RenumberLoop(st, file_id, annotation_ids, 1, increment, failAt)
         IN  [ret |-> r.ret, err |-> r.err, st |-> r.st,
              order |-> [i \in 1..Len(annotation_ids) |-> annotation_ids[i].annotation_id]]

\* DatabaseManager.increase_annotation_ids; order is the list it walked
increase_annotation_ids(st, path, from_id, increment, failAt) ==
    IF FileRows(st, path) = {}
    THEN [ret |-> FALSE, err |-> "nofile", st |-> st, order |-> <<>>]
    ELSE LET file_id == FileId(st, path)
             annotation_ids == RenumberList(st, file_id, from_id, increment)
             r == RenumberLoop(st, file_id, annotation_ids, 1, increment, failAt)
         IN  [ret |-> r.ret, err |-> r.err, st |-> r.st,
              order |-> [i \in 1..Len(annotation_ids) |-> annotation_ids[i].annotation_id]]

\* ------------------------------------------------------------ note store
\* NoteManager.create_annotation_note: overwrites a file of the same name;
\* ret = FALSE is the None result
\* a note manager that reports success without writing the document
create_annotation_note_Skip(notes, path, annotation_id, text, note_file, ioerror) ==
    [ret |-> ~ioerror, notes |-> notes]

create_annotation_note(notes, path, annotation_id, text, note_file, ioerror) ==
    IF ioerror THEN [ret |-> FALSE, notes |-> notes]
    ELSE [ret |-> TRUE,
          notes |-> [n \in DOMAIN notes \cup {note_file} |->
                        IF n = note_file
                        THEN [file |-> path, id |-> annotation_id, text |-> text]
                        ELSE notes[n]]]

\* a note manager that reports a deletion without unlinking the file
delete_note_Keep(notes, note_file, ioerror) ==
    [ret |-> note_file \in DOMAIN notes /\ ~ioerror, notes |-> notes]

\* NoteManager.delete_note
delete_note(notes, note_file, ioerror) ==
    IF note_file \notin DOMAIN notes \/ ioerror THEN [ret |-> FALSE, notes |-> notes]
    ELSE [ret |-> TRUE, notes |-> [n \in DOMAIN notes \ {note_file} |-> notes[n]]]

\* ---------------------------------------------------------------- state
VARIABLES
    docs,         \* path -> lines: the text of each document
    files,        \* table files
    annotations,  \* table annotations
    notes,        \* the note documents of the project
    now,          \* the wall clock, in seconds
    last,         \* what the last command did and returned
    hist,         \* the last store calls made directly (SpecStore)
    scan,         \* the results of the scanner on the second document (SpecScan)
    fs,           \* the directories that hold an .annotation folder (SpecForest)
    wm,           \* the WorkspaceManager (SpecForest)
    reply,        \* the last call of the WorkspaceManager and what it returned
    stores,       \* root path -> the store of the project there (SpecOwner)
    asked,        \* the options of the initialize requests so far (SpecConfig)
    pool,         \* a DatabaseManager and its last init_db call (SpecPool)
    srv,          \* the requests received and the handlers started (SpecServer)
    ext,          \* the content of a note document and its Notes section (SpecNotes)
    edits         \* the edits issued that the editor has not applied yet (SpecLag)

vars == <<docs, files, annotations, notes, now, last, hist, scan, fs, wm, reply, stores,
          cfg, asked, pool, srv, ext, edits>>

\* what the commands and the store never touch
rest == <<scan, fs, wm, reply, stores, cfg, asked, pool, srv, ext, edits>>

Store == [files |-> files, annotations |-> annotations, notes |-> notes]

\* file accesses that raise during a command: rn is the iteration of the
\* renumber loop whose note file access raises (0: none), note is whether
\* the command's own note file access (write or unlink) raises
NoFault == [rn |-> 0, note |-> FALSE]
Faults == [rn : 0..(MaxFaulty - 1), note : BOOLEAN]

\* last: cmd the command, success its result, and how each step ended:
\*   rn    "skip" | "true" | "nofile" | "integrity" | "io"
\*   db    "skip" | "ok" | "fail"     (record insert / delete)
\*   note  "skip" | "ok" | "fail"     (note creation / deletion)
\*   order the annotation ids the renumber step walked, in the order walked
NoCommand ==
    [cmd |-> "none", success |-> TRUE, rn |-> "skip", order |-> <<>>,
     db |-> "skip", note |-> "skip"]

RenumberOutcome(rn) == IF rn.ret THEN "true" ELSE rn.err

\* ------------------------------------------------------------- commands
\* server.list_annotations: the note_files of its result
list_annotations(st, path) == get_note_files_from_source_uri(st, path)

\* server.create_annotation: the command's effect on the store and on the
\* document, and its result (success = FALSE is {"success": False, ...})
create_annotation(st, lines, path, start, end, clock, io) ==
    LET selected_text == get_text_in_range(lines, start, end)
        before == get_annotation_id_before_position(lines, start)
        base == [NoCommand EXCEPT !.cmd = "create"]
    IN  IF ~before.ok
        THEN [st |-> st, lines |-> lines, out |-> [base EXCEPT !.success = FALSE]]
        ELSE
        LET annotation_id == before.id + 1
            rn == increase_annotation_ids(st, path, annotation_id, 1, io.rn)
            cr == db_create_annotation(rn.st, path, annotation_id, clock)
            ran == [base EXCEPT !.rn = RenumberOutcome(rn), !.order = rn.order]
        IN  IF cr.raised
            THEN [st |-> cr.st, lines |-> lines,
                  out |-> [ran EXCEPT !.success = FALSE, !.db = "fail"]]
            ELSE
            LET lines1 == ApplyCreateEdit(lines, start, end, cr.by)
                nt == create_annotation_note(cr.st.notes, path, annotation_id,
                                             selected_text, cr.note_file, io.note)
            IN  [st |-> [cr.st EXCEPT !.notes = nt.notes], lines |-> lines1,
                 out |-> [ran EXCEPT !.success = nt.ret, !.db = "ok",
                                     !.note = IF nt.ret THEN "ok" ELSE "fail"]]

\* server.delete_annotation; success = TRUE is the {"note_file": ...} result
delete_annotation(st, lines, path, position, io) ==
    LET at == get_annotation_at_position(lines, position)
        base == [NoCommand EXCEPT !.cmd = "delete"]
        failed == [st |-> st, lines |-> lines, out |-> [base EXCEPT !.success = FALSE]]
    IN  IF ~at.ok THEN failed
        ELSE
        LET annotation_id == at.id
            nf == get_annotation_note_file(st, path, annotation_id)
        IN  IF ~nf.found THEN failed
            ELSE
            LET del == db_delete_annotation(st, path, annotation_id)
                ranges == find_annotation_ranges(lines)
            IN  IF ~del.ret \/ ~ranges.ok
                THEN [st |-> del.st, lines |-> lines,
                      out |-> [base EXCEPT !.success = FALSE,
                                           !.db = IF del.ret THEN "ok" ELSE "fail"]]
                ELSE
                LET lines1 == ApplyDeleteEdit(lines, ranges.spans[annotation_id])
                    rn == increase_annotation_ids(del.st, path, annotation_id, -1, io.rn)
                    dn == delete_note(rn.st.notes, nf.note_file, io.note)
                IN  [st |-> [rn.st EXCEPT !.notes = dn.notes], lines |-> lines1,
                     out |-> [base EXCEPT !.rn = RenumberOutcome(rn),
                                          !.order = rn.order, !.db = "ok",
                                          !.note = IF dn.ret THEN "ok" ELSE "fail"]]

\* server.get_annotation_source with offset + 1 wrapped at n + 1
target_id_NoWrap(n, current_id, offset) == ((current_id - 1 + offset) % (n + 1)) + 1

\* server.get_annotation_source, line 487; % is python's, never negative
\* for a positive n
target_id(n, current_id, offset) == ((n + ((current_id - 1 + offset) % n)) % n) + 1

\* server.get_annotation_source on the note document note_file: found =
\* FALSE is the None result, of an early return or of an exception (a
\* missing note document, an unbalanced source, n = 0 in the modulo, no
\* row for the target id)
get_annotation_source(st, documents, note_file, offset) ==
    LET none == [found |-> FALSE, annotation_id |-> 0, note_file |-> 0, position |-> <<0, 0>>]
    IN  IF note_file \notin DOMAIN st.notes THEN none
        ELSE
        LET current_id == st.notes[note_file].id
            source_path == st.notes[note_file].file
            note_files == get_note_files_from_source_uri(st, source_path)
            ranges == find_annotation_ranges(documents[source_path])
            n == Len(ranges.spans)
        IN  IF current_id = 0 \/ note_files = <<>> \/ ~ranges.ok \/ n = 0 THEN none
            ELSE LET target == target_id(n, current_id, offset)
                     nf == get_annotation_note_file(st, source_path, target)
                 IN  IF ~nf.found THEN none
                     ELSE [found |-> TRUE, annotation_id |-> target,
                           note_file |-> nf.note_file,
                           position |-> <<ranges.spans[target][1], ranges.spans[target][2]>>]

\* the four queries of the span scanner on a text, at every position
Queries(lines) ==
    [raw |-> find_annotation_ranges_raw(lines),
     ordered |-> find_annotation_ranges(lines),
     at |-> [p \in Positions(lines) |-> get_annotation_at_position(lines, p)],
     before |-> [p \in Positions(lines) |-> get_annotation_id_before_position(lines, p)]]

\* WorkspaceManager.__init__: no project, no root, an empty index
WorkspaceManager == [objs |-> <<>>, roots |-> <<>>, all |-> <<>>]

\* reply: op the method called ("add" | "remove"), uri its argument, ws the
\* Workspace add_workspace returned (0: None), removed the result of
\* remove_workspace, pre the manager before the call
NoReply ==
    [op |-> "none", uri |-> [path |-> <<>>, form |-> "canon"], ws |-> 0,
     removed |-> FALSE, pre |-> WorkspaceManager]

\* the database and the notes directory of a project before any command,
\* as DatabaseManager.init_db and NoteManager.init_project leave them
EmptyStore == [files |-> {}, annotations |-> {}, notes |-> <<>>]
NoStores == [d \in {<<>>, <<"a">>, <<"a", "b">>, <<"a", "b", "c">>, <<"a", "xxx">>} |->
                EmptyStore]

\* DatabaseManager.__init__ without a project root: an empty pool; the
\* connections are the keys of the dict in insertion order, None is <<>>
\* for a database path and 0 for a project root
DatabaseManager == [connections |-> <<>>, current_db |-> <<>>, project_root |-> 0]

\* pool: db the DatabaseManager, root the argument of its last init_db call
\* (0: none yet), closed the connections that call closed, was_current
\* whether one of them was the current database when the call was made
NoPool == [db |-> DatabaseManager, root |-> 0, closed |-> <<>>, was_current |-> FALSE]

\* a handler call: pc the statement it is at ("free": no call), req its
\* request, and its locals: id annotation_id, text selected_text, note_file,
\* by the mark of the row inserted, span the range to edit (a list, empty:
\* not computed yet), out what it has done so far, pre the store and the
\* document when it was called (a list, empty: no call)
NoRequest == [cmd |-> "none", f |-> F1, start |-> <<0, 0>>, end |-> <<0, 0>>]
Free ==
    [pc |-> "free", req |-> NoRequest, id |-> 0, text |-> <<>>, note_file |-> 0,
     by |-> 0, span |-> <<>>, out |-> NoCommand, pre |-> <<>>]

\* srv: the handler calls in progress
NoServer == [frames |-> [h \in 1..MaxCalls |-> Free]]

\* ext: content the text of a note document, notes what
\* extract_notes_content returns on it; no document: the empty text
\* written is the selected text create_annotation_note wrote the document
\* with (a list, empty: the document was typed)
NoExtract == [content |-> <<>>, notes |-> <<>>, written |-> <<>>]

\* -------------------------------------------------------------- actions
Init ==
    /\ cfg = ModuleConfig
    /\ docs = [f \in Files |-> InitLines(f)]
    /\ files = {}
    /\ annotations = {}
    /\ notes = <<>>
    /\ now = 0
    /\ last = NoCommand
    /\ hist = <<>>
    /\ scan = Queries(InitLines(F2))
    /\ fs = {}
    /\ wm = WorkspaceManager
    /\ reply = NoReply
    /\ stores = NoStores
    /\ asked = <<>>
    /\ pool = NoPool
    /\ srv = NoServer
    /\ ext = NoExtract
    /\ edits = <<>>

Commit(r) ==
    /\ files' = r.st.files
    /\ annotations' = r.st.annotations
    /\ notes' = r.st.notes
    /\ last' = r.out

\* the createAnnotation command on document f with selection start..end
CreateWith(f, start, end, io, cap) ==
    /\ Cardinality(annotations) < cap
    /\ LET r == create_annotation(Store, docs[f], f, start, end, now, io) IN
        /\ docs' = [docs EXCEPT ![f] = r.lines]
        /\ Commit(r)
    /\ UNCHANGED <<now, hist, rest>>

\* the deleteAnnotation command on document f at a cursor position
DeleteWith(f, position, io) ==
    /\ LET r == delete_annotation(Store, docs[f], f, position, io) IN
        /\ docs' = [docs EXCEPT ![f] = r.lines]
        /\ Commit(r)
    /\ UNCHANGED <<now, hist, rest>>

\* a second passes
Tick ==
    /\ now < MaxClock
    /\ now' = now + 1
    /\ UNCHANGED <<docs, files, annotations, notes, last, hist, rest>>

\* Spec: commands whose file accesses all succeed, each edit applied to the
\* document before the next command; selections have start <= end
Create ==
    \E f \in Files : \E start \in Positions(docs[f]), end \in Positions(docs[f]) :
        /\ PosLeq(start, end)
        /\ f = F2 => Cardinality(RowsOf(Store, f)) < MaxSecond
        /\ CreateWith(f, start, end, NoFault, MaxAnnotations)

Delete ==
    \E f \in Files : \E position \in Positions(docs[f]) :
        DeleteWith(f, position, NoFault)

Next == Create \/ Delete \/ Tick

Spec == Init /\ [][Next]_vars

\* SpecEnv: the same commands in an environment where the user also types
\* brackets by hand and where a note file access can raise
Brackets(lines) ==
    {<<l, c>> \in Positions(lines) :
        /\ c < Len(lines[l + 1])
        /\ lines[l + 1][c + 1].ch \in {left_bracket, right_bracket}}

EnvFiles == {F1}

CreateEnv ==
    \E f \in EnvFiles : \E start \in Positions(docs[f]), end \in Positions(docs[f]) :
        \E io \in Faults :
            /\ PosLeq(start, end)
            /\ Cardinality(Brackets(docs[f])) < 2 * MaxFaulty
            /\ CreateWith(f, start, end, io, MaxFaulty)

DeleteEnv ==
    \E f \in EnvFiles : \E position \in Positions(docs[f]) : \E io \in Faults :
        DeleteWith(f, position, io)

UserType ==
    \E f \in EnvFiles : \E position \in Positions(docs[f]) :
        \E c \in {left_bracket, right_bracket} :
            /\ Cardinality(Brackets(docs[f])) < 2 * Cardinality(RowsOf(Store, f)) + MaxTyped
            /\ docs' = [docs EXCEPT ![f] = InsertAt(@, position, [ch |-> c, by |-> 0])]
            /\ UNCHANGED <<files, annotations, notes, now, last, hist, rest>>

NextEnv == CreateEnv \/ DeleteEnv \/ UserType \/ Tick

SpecEnv == Init /\ [][NextEnv]_vars

\* SpecScan: the scanner on the texts the user can type into the second
\* document (two lines), with all four queries made on each text
TextSize(lines) == Len(lines[1]) + Len(lines[2]) - 2

ScanType ==
    \E position \in Positions(docs[F2]) : \E c \in {left_bracket, right_bracket, "x"} :
        /\ TextSize(docs[F2]) < MaxText
        /\ LET lines == InsertAt(docs[F2], position, [ch |-> c, by |-> 0]) IN
            /\ docs' = [docs EXCEPT ![F2] = lines]
            /\ scan' = Queries(lines)
        /\ UNCHANGED <<files, annotations, notes, now, last, hist, fs, wm, reply, stores,
                       cfg, asked, pool, srv, ext, edits>>

NextScan == ScanType

SpecScan == Init /\ [][NextScan]_vars

\* SpecStore: the DatabaseManager of one project called directly with any
\* arguments; hist keeps the last HistLen consecutive renumber calls, each
\* with the rows before it
Remember(call) ==
    hist' = IF Len(hist) < HistLen THEN Append(hist, call)
            ELSE Append(Tail(hist), call)

Call(op, f, k, delta, ret) ==
    [op |-> op, file |-> f, k |-> k, delta |-> delta, ret |-> ret, pre |-> annotations]

StoreCreateWith(f, k) ==
    /\ Cardinality(annotations) < MaxAnnotations
    /\ LET r == db_create_annotation(Store, f, k, now) IN
        /\ files' = r.st.files
        /\ annotations' = r.st.annotations
        /\ hist' = <<Call("create", f, k, 0, ~r.raised)>>
    /\ UNCHANGED <<docs, notes, now, last, rest>>

StoreCreate == \E f \in Files : \E k \in 1..MaxId : StoreCreateWith(f, k)

StoreDelete ==
    \E f \in Files : \E k \in 1..MaxId :
        /\ LET r == db_delete_annotation(Store, f, k) IN
            /\ annotations' = r.st.annotations
            /\ hist' = <<>>
        /\ UNCHANGED <<docs, files, notes, now, last, rest>>

StoreRenumber ==
    \E f \in Files : \E k \in 1..MaxId : \E delta \in {1, -1} :
        /\ LET r == increase_annotation_ids(Store, f, k, delta, 0) IN
            /\ \A a \in r.st.annotations : a.annotation_id \in 0..(MaxId + 1)
            /\ annotations' = r.st.annotations
            /\ notes' = r.st.notes
            /\ Remember(Call("renumber", f, k, delta, r.ret))
        /\ UNCHANGED <<docs, files, now, last, rest>>

NextStore == StoreCreate \/ StoreDelete \/ StoreRenumber

SpecStore == Init /\ [][NextStore]_vars

\* ------------------------------------------------------ project forest
\* A path is the sequence of its names (the file system root is <<>>), a
\* uri is [path, form]: form "canon" is what Path.as_uri() returns, form
\* "slash" is the same uri with a trailing slash, which a client may send
\* and which urlparse and Path map to the same path.
Dirs == {<<>>, <<"a">>, <<"a", "b">>, <<"a", "b", "c">>, <<"a", "xxx">>}
NoDir == <<"q">>
FilePaths == {d \o <<"file">> : d \in Dirs \cup {<<"z">>}}
UriForms == {"canon", "slash"}
as_uri(path) == [path |-> path, form |-> "canon"]
Uris == [path : Dirs \cup {NoDir}, form : UriForms]

\* Path.relative_to: ok = FALSE is the ValueError, depth is len(relative.parts)
IsPrefix(r, p) == Len(r) <= Len(p) /\ SubSeq(p, 1, Len(r)) = r
relative_to(path, root_path) ==
    [ok |-> IsPrefix(root_path, path), depth |-> Len(path) - Len(root_path)]

\* len(str(path))
NameLen(name) == IF name = "xxx" THEN 3 ELSE 1
RECURSIVE StrLen(_)
StrLen(path) ==
    IF path = <<>> THEN 1
    ELSE IF Len(path) = 1 THEN 1 + NameLen(path[1])
    ELSE StrLen(SubSeq(path, 1, Len(path) - 1)) + 1 + NameLen(path[Len(path)])

\* Path.iterdir: the subdirectories of a directory, in an order that the
\* file system chooses (rk ranks each directory among its siblings)
SubDirs(dir) == {d \in Dirs : Len(d) = Len(dir) + 1 /\ IsPrefix(dir, d)}
Siblings(d) == SubDirs(SubSeq(d, 1, Len(d) - 1))
Rankings ==
    {rk \in [Dirs \ {<<>>} -> 1..2] :
        \A d \in Dirs \ {<<>>} :
            {rk[g] : g \in Siblings(d)} = 1..Cardinality(Siblings(d))}

RECURSIVE iterdir(_, _)
iterdir(S, rk) ==
    IF S = {} THEN <<>>
    ELSE LET d == CHOOSE d \in S : \A g \in S : rk[d] <= rk[g]
         IN  <<d>> \o iterdir(S \ {d}, rk)

\* WorkspaceManager._find_subprojects: the directories at or below
\* root_path that hold an .annotation folder, in depth-first order
RECURSIVE find_subprojects(_, _, _)
RECURSIVE SubprojectsOf(_, _, _)
find_subprojects(root_path, markers, rk) ==
    IF root_path \notin Dirs THEN <<>>
    ELSE (IF root_path \in markers THEN <<root_path>> ELSE <<>>)
            \o SubprojectsOf(iterdir(SubDirs(root_path), rk), markers, rk)
SubprojectsOf(items, markers, rk) ==
    IF items = <<>> THEN <<>>
    ELSE find_subprojects(Head(items), markers, rk)
            \o SubprojectsOf(Tail(items), markers, rk)

\* project_paths.sort(key=lambda p: len(str(p))): a stable sort
RECURSIVE SortByStrLen(_)
SortByStrLen(paths) ==
    IF paths = <<>> THEN <<>>
    ELSE LET i == CHOOSE i \in 1..Len(paths) :
                    /\ \A j \in 1..Len(paths) : StrLen(paths[i]) <= StrLen(paths[j])
                    /\ \A j \in 1..(i - 1) : StrLen(paths[j]) > StrLen(paths[i])
         IN  <<paths[i]>> \o SortByStrLen(SubSeq(paths, 1, i - 1)
                                            \o SubSeq(paths, i + 1, Len(paths)))

\* WorkspaceManager state: objs the Workspace objects ever constructed (an
\* object is named by its place in objs; parent 0 is None), roots the list
\* _roots, all the dict _all_workspaces as its entries [uri, ws] in
\* insertion order.
Has(all, uri) == \E i \in 1..Len(all) : all[i].uri = uri
Get(all, uri) == all[CHOOSE i \in 1..Len(all) : all[i].uri = uri].ws
Put(all, uri, ws) ==
    IF Has(all, uri)
    THEN [i \in 1..Len(all) |-> IF all[i].uri = uri THEN [uri |-> uri, ws |-> ws] ELSE all[i]]
    ELSE Append(all, [uri |-> uri, ws |-> ws])

\* Workspace.__init__
Workspace(root_path) == [root_path |-> root_path, parent |-> 0, children |-> <<>>]

Without(list, v) == SelectSeq(list, LAMBDA w : w # v)

\* Workspace.add_child
add_child(objs, self, child) ==
    LET old == objs[child].parent
        objs1 == IF old # 0
                 THEN [objs EXCEPT ![old].children = Without(@, child)]
                 ELSE objs
    IN  [objs1 EXCEPT ![child].parent = self,
                      ![self].children = Append(@, child)]

\* the loop shared by _find_root_project_for_path and get_workspace: the
\* first workspace of the list with the smallest relative depth (0: None)
RECURSIVE MinDepthLoop(_, _, _, _, _, _)
MinDepthLoop(objs, list, path, i, best, min_depth) ==
    IF i > Len(list) THEN best
    ELSE LET relative == relative_to(path, objs[list[i]].root_path) IN
         IF relative.ok /\ relative.depth < min_depth
         THEN MinDepthLoop(objs, list, path, i + 1, list[i], relative.depth)
         ELSE MinDepthLoop(objs, list, path, i + 1, best, min_depth)

\* WorkspaceManager._find_root_project_for_path
find_root_project_for_path(m, path) ==
    MinDepthLoop(m.objs, m.roots, path, 1, 0, 2147483647)

\* the parent _insert_workspace picks among potential_parents with
\* max(key = relative depth): the first entry with the largest key
MaxParent(potential_parents) ==
    LET i == CHOOSE i \in 1..Len(potential_parents) :
                /\ \A j \in 1..Len(potential_parents) :
                      potential_parents[j].depth <= potential_parents[i].depth
                /\ \A j \in 1..(i - 1) :
                      potential_parents[j].depth < potential_parents[i].depth
    IN  potential_parents[i].other

\* WorkspaceManager._insert_workspace
insert_workspace(m, workspace) ==
    LET cand == [i \in 1..Len(m.all) |->
                    [other |-> m.all[i].ws,
                     depth |-> relative_to(m.objs[workspace].root_path,
                                           m.objs[m.all[i].ws].root_path).depth,
                     ok |-> /\ m.all[i].ws # workspace
                            /\ relative_to(m.objs[workspace].root_path,
                                           m.objs[m.all[i].ws].root_path).ok]]
        potential_parents == SelectSeq(cand, LAMBDA c : c.ok)
    IN  IF potential_parents = <<>>
        THEN IF \E i \in 1..Len(m.roots) : m.roots[i] = workspace THEN m
             ELSE [m EXCEPT !.roots = Append(@, workspace)]
        ELSE [m EXCEPT !.objs = add_child(@, MaxParent(potential_parents), workspace)]

\* the loop of add_workspace over project_paths when a root project holds
\* the folder: only the paths that are not in the index get a Workspace
RECURSIVE AddToExistingTree(_, _, _)
AddToExistingTree(m, project_paths, i) ==
    IF i > Len(project_paths) THEN m
    ELSE LET path == project_paths[i] IN
         IF Has(m.all, as_uri(path))
         THEN AddToExistingTree(m, project_paths, i + 1)
         ELSE LET workspace == Len(m.objs) + 1
                  m1 == [m EXCEPT !.objs = Append(@, Workspace(path)),
                                  !.all = Put(@, as_uri(path), workspace)]
              IN  AddToExistingTree(insert_workspace(m1, workspace), project_paths, i + 1)

\* the loop of add_workspace over project_paths when no root project holds
\* the folder: every path gets a Workspace, the first one becomes a root
RECURSIVE AddNewTree(_, _, _)
AddNewTree(m, project_paths, i) ==
    IF i > Len(project_paths) THEN m
    ELSE LET path == project_paths[i]
             workspace == Len(m.objs) + 1
             m1 == [m EXCEPT !.objs = Append(@, Workspace(path)),
                             !.all = Put(@, as_uri(path), workspace)]
         IN  IF path = project_paths[1]
             THEN AddNewTree([m1 EXCEPT !.roots = Append(@, workspace)], project_paths, i + 1)
             ELSE AddNewTree(insert_workspace(m1, workspace), project_paths, i + 1)

\* WorkspaceManager.add_workspace; ret 0 is None
add_workspace(m, workspace_uri, markers, rk) ==
    IF Has(m.all, workspace_uri) THEN [m |-> m, ret |-> Get(m.all, workspace_uri)]
    ELSE
    LET workspace_path == workspace_uri.path
        project_paths == SortByStrLen(find_subprojects(workspace_path, markers, rk))
    IN  IF workspace_path \notin Dirs \/ project_paths = <<>> THEN [m |-> m, ret |-> 0]
        ELSE
        LET root == find_root_project_for_path(m, workspace_path)
            m1 == IF root # 0 THEN AddToExistingTree(m, project_paths, 1)
                  ELSE AddNewTree(m, project_paths, 1)
            m2 == IF ~Has(m1.all, workspace_uri) /\ Has(m1.all, as_uri(workspace_path))
                  THEN [m1 EXCEPT !.all = Put(@, workspace_uri,
                                              Get(m1.all, as_uri(workspace_path)))]
                  ELSE m1
        IN  [m |-> m2,
             ret |-> IF Has(m2.all, workspace_uri) THEN Get(m2.all, workspace_uri)
                     ELSE IF Has(m2.all, as_uri(workspace_path))
                     THEN Get(m2.all, as_uri(workspace_path))
                     ELSE 0]

\* Workspace.get_subtree_workspaces
RECURSIVE get_subtree_workspaces(_, _)
RECURSIVE SubtreesOf(_, _)
get_subtree_workspaces(objs, self) == <<self>> \o SubtreesOf(objs, objs[self].children)
SubtreesOf(objs, children) ==
    IF children = <<>> THEN <<>>
    ELSE get_subtree_workspaces(objs, Head(children)) \o SubtreesOf(objs, Tail(children))

\* a get_workspace that stops at the root project
get_workspace_Root(m, file_path) == find_root_project_for_path(m, file_path)

\* WorkspaceManager.get_workspace (0: None)
get_workspace(m, file_path) ==
    LET root == find_root_project_for_path(m, file_path) IN
    IF root = 0 THEN 0
    ELSE MinDepthLoop(m.objs, get_subtree_workspaces(m.objs, root), file_path,
                      1, 0, 2147483647)

\* SpecForest: folders registered in any order, with any of their uris, in
\* a file system whose .annotation folders do not change
InitForest ==
    /\ cfg = ModuleConfig
    /\ docs = [f \in Files |-> InitLines(f)]
    /\ files = {}
    /\ annotations = {}
    /\ notes = <<>>
    /\ now = 0
    /\ last = NoCommand
    /\ hist = <<>>
    /\ scan = Queries(InitLines(F2))
    /\ fs \in SUBSET (Dirs \ {<<>>})
    /\ wm = WorkspaceManager
    /\ reply = NoReply
    /\ stores = NoStores
    /\ asked = <<>>
    /\ pool = NoPool
    /\ srv = NoServer
    /\ ext = NoExtract
    /\ edits = <<>>

RegisterRoot ==
    \E workspace_uri \in Uris : \E rk \in Rankings :
        LET r == add_workspace(wm, workspace_uri, fs, rk) IN
        /\ Len(r.m.objs) <= MaxProjects
        /\ wm' = r.m
        /\ reply' = [NoReply EXCEPT !.op = "add", !.uri = workspace_uri,
                                    !.ws = r.ret, !.pre = wm]
        /\ UNCHANGED <<docs, files, annotations, notes, now, last, hist, scan, fs, stores,
                       cfg, asked, pool, srv, ext, edits>>

NextForest == RegisterRoot

SpecForest == InitForest /\ [][NextForest]_vars

\* dict.pop(uri, None)
Pop(all, uri) == SelectSeq(all, LAMBDA entry : entry.uri # uri)

\* the loop of remove_workspace over the subtree of a root project: the
\* index entry under each project's own uri (Workspace.uri) is dropped
RECURSIVE PopSubtree(_, _, _, _)
PopSubtree(all, objs, subtree, i) ==
    IF i > Len(subtree) THEN all
    ELSE PopSubtree(Pop(all, as_uri(objs[subtree[i]].root_path)), objs, subtree, i + 1)

\* Workspace.remove_child
remove_child(objs, self, child) ==
    IF \E i \in 1..Len(objs[self].children) : objs[self].children[i] = child
    THEN [objs EXCEPT ![child].parent = 0, ![self].children = Without(@, child)]
    ELSE objs

\* WorkspaceManager.remove_workspace
remove_workspace(m, workspace_uri) ==
    IF ~Has(m.all, workspace_uri) THEN [m |-> m, ret |-> FALSE]
    ELSE
    LET workspace == Get(m.all, workspace_uri) IN
    IF \E i \in 1..Len(m.roots) : m.roots[i] = workspace
    THEN [m |-> [m EXCEPT !.roots = Without(@, workspace),
                          !.all = PopSubtree(@, m.objs,
                                     get_subtree_workspaces(m.objs, workspace), 1)],
          ret |-> TRUE]
    ELSE [m |-> [m EXCEPT !.objs = IF m.objs[workspace].parent # 0
                                   THEN remove_child(@, m.objs[workspace].parent, workspace)
                                   ELSE @,
                          !.all = Pop(@, workspace_uri)],
          ret |-> TRUE]

\* SpecFolders: folders added and removed in any order, as the
\* workspace/didChangeWorkspaceFolders notification does
AddFolder ==
    \E workspace_uri \in Uris : \E rk \in Rankings :
        LET r == add_workspace(wm, workspace_uri, fs, rk) IN
        /\ Len(r.m.objs) <= MaxRebuilt
        /\ wm' = r.m
        /\ reply' = [NoReply EXCEPT !.op = "add", !.uri = workspace_uri,
                                    !.ws = r.ret, !.pre = wm]
        /\ UNCHANGED <<docs, files, annotations, notes, now, last, hist, scan, fs, stores,
                       cfg, asked, pool, srv, ext, edits>>

UnregisterRoot ==
    \E workspace_uri \in Uris :
        LET r == remove_workspace(wm, workspace_uri) IN
        /\ wm' = r.m
        /\ reply' = [NoReply EXCEPT !.op = "remove", !.uri = workspace_uri,
                                    !.removed = r.ret, !.pre = wm]
        /\ UNCHANGED <<docs, files, annotations, notes, now, last, hist, scan, fs, stores,
                       cfg, asked, pool, srv, ext, edits>>

NextFolders == AddFolder \/ UnregisterRoot

InitFolders == InitForest /\ fs \subseteq {<<"a">>, <<"a", "b">>}

SpecFolders == InitFolders /\ [][NextFolders]_vars

\* ------------------------------------------------ commands in the forest
\* where the two documents lie
Location(f) == IF f = F1 THEN <<"a", "file">> ELSE <<"a", "b", "file">>

\* DatabaseManager._uri_to_relative_path: the path below project_root, the
\* whole path when the file is not below it
uri_to_relative_path(file_path, project_root) ==
    IF relative_to(file_path, project_root).ok
    THEN SubSeq(file_path, Len(project_root) + 1, Len(file_path))
    ELSE file_path

NoWorkspace(cmd, sts, lines) ==
    [stores |-> sts, lines |-> lines,
     out |-> [NoCommand EXCEPT !.cmd = cmd, !.success = FALSE]]

\* server.create_annotation and server.delete_annotation from the lookup
\* of the workspace on: db_manager and note_manager are those of the
\* Workspace that get_workspace returns for the document, and they work on
\* the database and the notes directory below its root path
InStore(sts, root_path, r) ==
    [stores |-> [sts EXCEPT ![root_path] = r.st], lines |-> r.lines, out |-> r.out]

create_annotation_at(sts, root_path, lines, file_path, start, end, clock) ==
    InStore(sts, root_path,
            create_annotation(sts[root_path], lines,
                              uri_to_relative_path(file_path, root_path),
                              start, end, clock, NoFault))

delete_annotation_at(sts, root_path, lines, file_path, position) ==
    InStore(sts, root_path,
            delete_annotation(sts[root_path], lines,
                              uri_to_relative_path(file_path, root_path),
                              position, NoFault))

create_annotation_for(workspace, m, sts, lines, file_path, start, end, clock) ==
    IF workspace = 0 THEN NoWorkspace("create", sts, lines)
    ELSE create_annotation_at(sts, m.objs[workspace].root_path, lines, file_path,
                              start, end, clock)

delete_annotation_for(workspace, m, sts, lines, file_path, position) ==
    IF workspace = 0 THEN NoWorkspace("delete", sts, lines)
    ELSE delete_annotation_at(sts, m.objs[workspace].root_path, lines, file_path, position)

create_annotation_in(m, sts, lines, file_path, start, end, clock) ==
    create_annotation_for(get_workspace(m, file_path), m, sts, lines, file_path,
                          start, end, clock)

delete_annotation_in(m, sts, lines, file_path, position) ==
    delete_annotation_for(get_workspace(m, file_path), m, sts, lines, file_path, position)

\* SpecOwner: folders added and commands run in any order
OwnerCommit(f, r) ==
    /\ docs' = [docs EXCEPT ![f] = r.lines]
    /\ stores' = r.stores
    /\ last' = r.out
    /\ UNCHANGED <<files, annotations, notes, now, hist, scan, fs, wm, reply, cfg, asked, pool, srv,
                   ext, edits>>

OwnerCreateOn(f) ==
    \E start \in Positions(docs[f]), end \in Positions(docs[f]) :
        /\ PosLeq(start, end)
        /\ Cardinality(Brackets(docs[f])) < 2 * MaxOwned
        /\ OwnerCommit(f, create_annotation_in(wm, stores, docs[f], Location(f),
                                               start, end, now))

OwnerDeleteOn(f) ==
    \E position \in Positions(docs[f]) :
        OwnerCommit(f, delete_annotation_in(wm, stores, docs[f], Location(f), position))

OwnerCreate == \E f \in Files : OwnerCreateOn(f)
OwnerDelete == \E f \in Files : OwnerDeleteOn(f)

NextOwner == AddFolder \/ OwnerCreate \/ OwnerDelete

SpecOwner == InitFolders /\ [][NextOwner]_vars

\* SpecConfig: initialize requests with any options, and a document typed
\* in both the default delimiters and those of the options
Alphabet == {DEFAULT_CONFIG.left_bracket, DEFAULT_CONFIG.right_bracket, "[", "]"}

\* server.initialize: the options go to initialize_config, the root uri
\* (a list, empty: no root uri) to add_workspace
Initialize ==
    \E options \in Options : \E root_uri \in {<<>>, <<as_uri(<<"a">>)>>} :
        /\ Len(asked) < MaxInit
        /\ cfg' = initialize_config(cfg, options)
        /\ asked' = Append(asked, options)
        /\ IF root_uri = <<>> THEN UNCHANGED <<wm, reply>>
           ELSE \E rk \in Rankings :
                   LET r == add_workspace(wm, root_uri[1], fs, rk) IN
                   /\ wm' = r.m
                   /\ reply' = [NoReply EXCEPT !.op = "add", !.uri = root_uri[1],
                                               !.ws = r.ret, !.pre = wm]
        /\ UNCHANGED <<docs, files, annotations, notes, now, last, hist, scan, fs, stores,
                       pool, srv, ext, edits>>

ConfigType ==
    \E position \in Positions(docs[F2]) : \E c \in Alphabet :
        /\ TextSize(docs[F2]) < MaxConfigText
        /\ LET lines == InsertAt(docs[F2], position, [ch |-> c, by |-> 0]) IN
            /\ docs' = [docs EXCEPT ![F2] = lines]
            /\ scan' = Queries(lines)
        /\ UNCHANGED <<files, annotations, notes, now, last, hist, fs, wm, reply, stores,
                       cfg, asked, pool, srv, ext, edits>>

NextConfig == Initialize \/ ConfigType

InitConfig == InitForest /\ fs \subseteq {<<"a">>}

SpecConfig == InitConfig /\ [][NextConfig]_vars

\* SpecPool: one DatabaseManager pointed at one project root after another
ProjectRoots == 1..NumRoots

\* str(project_root / ".annotation" / "db" / "annotations.db")
db_path(project_root) == <<project_root, ".annotation", "db", "annotations.db">>

InPool(connections, path) == \E i \in 1..Len(connections) : connections[i] = path

\* DatabaseManager.init_db with len(self.connections) > self.max_connections
init_db_Late(db, project_root) ==
    LET path == db_path(project_root)
        here == [db EXCEPT !.project_root = project_root]
    IN  IF db.current_db = path THEN here
        ELSE IF InPool(db.connections, path) THEN [here EXCEPT !.current_db = path]
        ELSE LET kept == IF Len(db.connections) > max_connections
                         THEN Tail(db.connections) ELSE db.connections
             IN  [here EXCEPT !.connections = Append(kept, path), !.current_db = path]

\* DatabaseManager.init_db that keeps a full pool as it is
init_db_FullPool(db, project_root) ==
    LET path == db_path(project_root)
        here == [db EXCEPT !.project_root = project_root]
    IN  IF db.current_db = path THEN here
        ELSE IF InPool(db.connections, path) THEN [here EXCEPT !.current_db = path]
        ELSE LET kept == IF Len(db.connections) >= max_connections
                         THEN db.connections ELSE Append(db.connections, path)
             IN  [here EXCEPT !.connections = kept, !.current_db = path]

\* DatabaseManager.init_db closing the first connection that is not current
init_db_SpareCurrent(db, project_root) ==
    LET path == db_path(project_root)
        here == [db EXCEPT !.project_root = project_root]
        old == IF db.connections[1] = db.current_db THEN 2 ELSE 1
    IN  IF db.current_db = path THEN here
        ELSE IF InPool(db.connections, path) THEN [here EXCEPT !.current_db = path]
        ELSE LET kept == IF Len(db.connections) >= max_connections
                         THEN SelectSeq(db.connections,
                                        LAMBDA c : c # db.connections[old])
                         ELSE db.connections
             IN  [here EXCEPT !.connections = Append(kept, path), !.current_db = path]

\* DatabaseManager.init_db: the manager after the call; a database that is
\* current or pooled is reused, a new one is connected and, the pool being
\* full, the connection of the first key of the dict is closed and removed
init_db(db, project_root) ==
    LET path == db_path(project_root)
        here == [db EXCEPT !.project_root = project_root]
    IN  IF db.current_db = path THEN here
        ELSE IF InPool(db.connections, path) THEN [here EXCEPT !.current_db = path]
        ELSE LET kept == IF Len(db.connections) >= max_connections
                         THEN Tail(db.connections) ELSE db.connections
             IN  [here EXCEPT !.connections = Append(kept, path), !.current_db = path]

InitDb ==
    \E project_root \in ProjectRoots :
        /\ LET db == init_db(pool.db, project_root)
               closed == SelectSeq(pool.db.connections,
                                   LAMBDA c : ~InPool(db.connections, c))
           IN  pool' = [db |-> db, root |-> project_root, closed |-> closed,
                        was_current |-> InPool(closed, pool.db.current_db)]
        /\ UNCHANGED <<docs, files, annotations, notes, now, last, hist, scan, fs, wm, reply,
                       stores, cfg, asked, srv, ext, edits>>

NextPool == InitDb

SpecPool == Init /\ [][NextPool]_vars

\* SpecServer: the two commands statement by statement, on the first
\* document; a request is a createAnnotation with a selection or a
\* deleteAnnotation with a cursor position (start = end)
Slots == 1..MaxCalls

Requests(lines) ==
    {[cmd |-> c, f |-> F1, start |-> a, end |-> b] :
        c \in {"create", "delete"}, a \in Positions(lines), b \in Positions(lines)}

Running(frames) == {h \in Slots : frames[h].pc # "free"}

\* a server whose handlers run on threads of their own
may_start_Threaded(frames) == Running(frames) # Slots

\* the server calls a handler, a plain function, from its message loop: the
\* next request is handled when the handler of the previous one returned
may_start(frames) == Running(frames) = {}

\* a handler up to its first call that changes the store: the frame of
\* the call, "free" with the result in out when it returns at once
begin(req, st, lines) ==
    LET fr == [Free EXCEPT !.req = req, !.out.cmd = req.cmd,
                           !.pre = <<[st |-> st, lines |-> lines]>>]
        failed == [fr EXCEPT !.pc = "free", !.out.success = FALSE]
    IN  IF req.cmd = "create"
        THEN LET before == get_annotation_id_before_position(lines, req.start) IN
             IF ~before.ok THEN failed
             ELSE [fr EXCEPT !.pc = "renumber", !.id = before.id + 1,
                             !.text = get_text_in_range(lines, req.start, req.end)]
        ELSE LET at == get_annotation_at_position(lines, req.start) IN
             IF ~at.ok THEN failed
             ELSE LET nf == get_annotation_note_file(st, req.f, at.id) IN
                  IF ~nf.found THEN failed
                  ELSE [fr EXCEPT !.pc = "delete", !.id = at.id,
                                  !.note_file = nf.note_file]

\* one statement of create_annotation: the frame, the store and the text after it
create_step(fr, st, lines, clock) ==
    IF fr.pc = "renumber"
    THEN LET rn == increase_annotation_ids(st, fr.req.f, fr.id, 1, 0) IN
         [fr |-> [fr EXCEPT !.pc = "insert", !.out.rn = RenumberOutcome(rn),
                            !.out.order = rn.order],
          st |-> rn.st, lines |-> lines]
    ELSE IF fr.pc = "insert"
    THEN LET cr == db_create_annotation(st, fr.req.f, fr.id, clock) IN
         IF cr.raised
         THEN [fr |-> [fr EXCEPT !.pc = "free", !.out.success = FALSE, !.out.db = "fail"],
               st |-> cr.st, lines |-> lines]
         ELSE [fr |-> [fr EXCEPT !.pc = "edit", !.note_file = cr.note_file,
                                 !.by = cr.by, !.out.db = "ok"],
               st |-> cr.st, lines |-> lines]
    ELSE IF fr.pc = "edit"
    THEN [fr |-> [fr EXCEPT !.pc = "note"], st |-> st,
          lines |-> ApplyCreateEdit(lines, fr.req.start, fr.req.end, fr.by)]
    ELSE LET nt == create_annotation_note(st.notes, fr.req.f, fr.id, fr.text,
                                          fr.note_file, FALSE) IN
         [fr |-> [fr EXCEPT !.pc = "free", !.out.success = nt.ret,
                            !.out.note = IF nt.ret THEN "ok" ELSE "fail"],
          st |-> [st EXCEPT !.notes = nt.notes], lines |-> lines]

\* one statement of delete_annotation
delete_step(fr, st, lines) ==
    IF fr.pc = "delete"
    THEN LET del == db_delete_annotation(st, fr.req.f, fr.id)
             ranges == find_annotation_ranges(lines)
         IN  IF ~del.ret \/ ~ranges.ok \/ fr.id > Len(ranges.spans)
             THEN [fr |-> [fr EXCEPT !.pc = "free", !.out.success = FALSE,
                                     !.out.db = IF del.ret THEN "ok" ELSE "fail"],
                   st |-> del.st, lines |-> lines]
             ELSE [fr |-> [fr EXCEPT !.pc = "edit", !.span = <<ranges.spans[fr.id]>>,
                                     !.out.db = "ok"],
                   st |-> del.st, lines |-> lines]
    ELSE IF fr.pc = "edit"
    THEN [fr |-> [fr EXCEPT !.pc = "renumber"], st |-> st,
          lines |-> ApplyDeleteEdit(lines, fr.span[1])]
    ELSE IF fr.pc = "renumber"
    THEN LET rn == increase_annotation_ids(st, fr.req.f, fr.id, -1, 0) IN
         [fr |-> [fr EXCEPT !.pc = "note", !.out.rn = RenumberOutcome(rn),
                            !.out.order = rn.order],
          st |-> rn.st, lines |-> lines]
    ELSE LET dn == delete_note(st.notes, fr.note_file, FALSE) IN
         [fr |-> [fr EXCEPT !.pc = "free",
                            !.out.note = IF dn.ret THEN "ok" ELSE "fail"],
          st |-> [st EXCEPT !.notes = dn.notes], lines |-> lines]

step(fr, st, lines, clock) ==
    IF fr.req.cmd = "create" THEN create_step(fr, st, lines, clock)
    ELSE delete_step(fr, st, lines)

\* a handler that returns frees its frame and leaves its result in last
Return(h, fr) ==
    /\ srv' = [srv EXCEPT !.frames[h] = IF fr.pc = "free" THEN Free ELSE fr]
    /\ last' = IF fr.pc = "free" THEN fr.out ELSE last

StartWith(h, fr) ==
    /\ Return(h, fr)
    /\ UNCHANGED <<docs, files, annotations, notes>>

StepWith(h, f, r) ==
    /\ Return(h, r.fr)
    /\ docs' = [docs EXCEPT ![f] = r.lines]
    /\ files' = r.st.files
    /\ annotations' = r.st.annotations
    /\ notes' = r.st.notes

\* the server calls the handler of a request
StartCall ==
    \E req \in Requests(docs[F1]) : \E h \in Slots :
        /\ may_start(srv.frames)
        /\ h \notin Running(srv.frames)
        /\ \A g \in Slots \ Running(srv.frames) : h <= g
        /\ req.cmd = "create" =>
              PosLeq(req.start, req.end) /\ Cardinality(annotations) < MaxServed
        /\ req.cmd = "delete" => req.start = req.end
        /\ StartWith(h, begin(req, Store, docs[req.f]))
        /\ UNCHANGED <<now, hist, scan, fs, wm, reply, stores, cfg, asked, pool, ext, edits>>

\* a handler in progress executes its next statement
StepCall ==
    \E h \in Running(srv.frames) :
        /\ StepWith(h, srv.frames[h].req.f,
                    step(srv.frames[h], Store, docs[srv.frames[h].req.f], now))
        /\ UNCHANGED <<now, hist, scan, fs, wm, reply, stores, cfg, asked, pool, ext, edits>>

NextServer == StartCall \/ StepCall

SpecServer == Init /\ [][NextServer]_vars

\* SpecNav: the commands on the first document, whose user also types
\* pairs of brackets by hand; get_annotation_source is asked of every
\* note document and offset in each state
Typed(lines) == {b \in Brackets(lines) : lines[b[1] + 1][b[2] + 1].by = 0}

CreateNav ==
    \E start \in Positions(docs[F1]), end \in Positions(docs[F1]) :
        /\ PosLeq(start, end)
        /\ CreateWith(F1, start, end, NoFault, MaxNavigated)

DeleteNav == \E position \in Positions(docs[F1]) : DeleteWith(F1, position, NoFault)

TypePair ==
    \E open \in Positions(docs[F1]), close \in Positions(docs[F1]) :
        /\ PosLeq(open, close)
        /\ Cardinality(Typed(docs[F1])) < 2 * MaxPairs
        /\ docs' = [docs EXCEPT ![F1] =
                      InsertAt(InsertAt(@, close, [ch |-> right_bracket, by |-> 0]),
                               open, [ch |-> left_bracket, by |-> 0])]
        /\ UNCHANGED <<files, annotations, notes, now, last, hist, rest>>

NextNav == CreateNav \/ DeleteNav \/ TypePair \/ Tick

SpecNav == Init /\ [][NextNav]_vars

\* SpecLag: the commands on the first document when the editor applies
\* their edits later. docs is the server's copy of the document, which
\* changes only with the didChange notification that follows an applied
\* edit; a command reads that copy, writes the store and leaves its edit
\* in edits; the editor applies the edits in the order they were issued,
\* at the positions they name.

\* a position past the end of its line is the end of the line
Clamp(lines, pos) ==
    IF pos[2] > LineEnd(lines[pos[1] + 1]) THEN <<pos[1], LineEnd(lines[pos[1] + 1])>> ELSE pos

\* the removal of the character at pos, if the line has one there
RemoveIn(lines, pos) ==
    IF pos[2] < LineEnd(lines[pos[1] + 1]) THEN RemoveAt(lines, pos) ELSE lines

\* the editor applies one WorkspaceEdit to the text it has
ApplyEdit(lines, edit) ==
    IF edit.kind = "create"
    THEN ApplyCreateEdit(lines, Clamp(lines, edit.start), Clamp(lines, edit.end), edit.by)
    ELSE RemoveIn(RemoveIn(lines, edit.end), edit.start)

CreateLag ==
    \E start \in Positions(docs[F1]), end \in Positions(docs[F1]) :
        /\ PosLeq(start, end)
        /\ Len(edits) < MaxLag
        /\ Cardinality(annotations) < MaxLagged
        /\ Cardinality(Brackets(docs[F1])) + 2 * Len(edits) < 2 * MaxLagged
        /\ LET r == create_annotation(Store, docs[F1], F1, start, end, now, NoFault) IN
            /\ Commit(r)
            /\ edits' = IF r.lines = docs[F1] THEN edits
                        ELSE Append(edits, [kind |-> "create", start |-> start, end |-> end,
                                            by |-> r.lines[start[1] + 1][start[2] + 1].by])
        /\ UNCHANGED <<docs, now, hist, scan, fs, wm, reply, stores, cfg, asked, pool, srv, ext>>

DeleteLag ==
    \E position \in Positions(docs[F1]) :
        /\ Len(edits) < MaxLag
        /\ LET r == delete_annotation(Store, docs[F1], F1, position, NoFault) IN
            /\ Commit(r)
            /\ edits' = IF r.lines = docs[F1] THEN edits
                        ELSE LET range == find_annotation_ranges(docs[F1]).spans[
                                              get_annotation_at_position(docs[F1], position).id]
                             IN  Append(edits, [kind |-> "delete",
                                                start |-> <<range[1], range[2]>>,
                                                end |-> <<range[3], range[4]>>, by |-> 0])
        /\ UNCHANGED <<docs, now, hist, scan, fs, wm, reply, stores, cfg, asked, pool, srv, ext>>

\* the editor applies the oldest edit and notifies the server (did_change)
did_change ==
    /\ edits # <<>>
    /\ docs' = [docs EXCEPT ![F1] = ApplyEdit(@, Head(edits))]
    /\ edits' = Tail(edits)
    /\ UNCHANGED <<files, annotations, notes, now, last, hist, scan, fs, wm, reply, stores,
                   cfg, asked, pool, srv, ext>>

NextLag == CreateLag \/ DeleteLag \/ did_change

SpecLag == Init /\ [][NextLag]_vars

\* SpecNotes: the text of a note document, typed or written by
\* create_annotation_note, and its Notes section. A text is a list of
\* characters; NotesHeader stands for the characters of "## Notes", and
\* the other fixed lines of a note document for theirs
NotesHeader == "## Notes"
NoteChars == {NotesHeader, " ", "\n", "\r", "x"}
Whitespace == {" ", "\n", "\r"}
LineBreaks == {"\n", "\r"}

\* str.splitlines over lines[..] and the line in progress: a line ends at
\* "\n", "\r" or "\r\n"; no empty last line
RECURSIVE SplitLoop(_, _, _, _)
SplitLoop(content, i, line, lines) ==
    IF i > Len(content) THEN IF line = <<>> THEN lines ELSE Append(lines, line)
    ELSE IF content[i] = "\r" /\ i < Len(content) /\ content[i + 1] = "\n"
    THEN SplitLoop(content, i + 2, <<>>, Append(lines, line))
    ELSE IF content[i] \in LineBreaks
    THEN SplitLoop(content, i + 1, <<>>, Append(lines, line))
    ELSE SplitLoop(content, i + 1, Append(line, content[i]), lines)

splitlines(content) == SplitLoop(content, 1, <<>>, <<>>)

\* str.strip
RECURSIVE lstrip(_)
lstrip(s) == IF s # <<>> /\ Head(s) \in Whitespace THEN lstrip(Tail(s)) ELSE s

RECURSIVE rstrip(_)
rstrip(s) ==
    IF s # <<>> /\ s[Len(s)] \in Whitespace THEN rstrip(SubSeq(s, 1, Len(s) - 1)) ELSE s

strip(s) == rstrip(lstrip(s))

\* "\n".join(lines[i:])
RECURSIVE join(_, _)
join(lines, i) ==
    IF i > Len(lines) THEN <<>>
    ELSE IF i = Len(lines) THEN lines[i]
    ELSE lines[i] \o <<"\n">> \o join(lines, i + 1)

\* extract_notes_content returning "\n".join(lines[i:]).strip()
RECURSIVE ExtractLoop_WithHeader(_, _)
ExtractLoop_WithHeader(lines, i) ==
    IF i > Len(lines) THEN <<>>
    ELSE IF strip(lines[i]) = <<NotesHeader>> THEN strip(join(lines, i))
    ELSE ExtractLoop_WithHeader(lines, i + 1)

\* the loop of extract_notes_content from line i (1-based)
RECURSIVE ExtractLoop(_, _)
ExtractLoop(lines, i) ==
    IF i > Len(lines) THEN <<>>
    ELSE IF strip(lines[i]) = <<NotesHeader>> THEN strip(join(lines, i + 1))
    ELSE ExtractLoop(lines, i + 1)

\* extract_notes_content that keeps the header line in what it returns
extract_notes_content_WithHeader(content) == ExtractLoop_WithHeader(splitlines(content), 1)

\* utils.extract_notes_content
extract_notes_content(content) == ExtractLoop(splitlines(content), 1)

\* the text NoteManager.create_annotation_note writes; "-", "f", "i", "S"
\* and "c" stand for the lines "---", "file: ...", "id: ...",
\* "## Selected Text" and the code fence
note_content(text) ==
    <<"-", "\n", "f", "\n", "i", "\n", "-", "\n", "\n", "S", "\n", "c", "\n">>
        \o text \o <<"\n", "c", "\n", NotesHeader, "\n">>

SelectedTexts == UNION {[1..n -> NoteChars] : n \in 0..MaxSelected}

\* the user types a character at the end of the note document
NoteType ==
    \E c \in NoteChars :
        /\ Len(ext.content) < MaxNote
        /\ ext' = [content |-> Append(ext.content, c),
                   notes |-> extract_notes_content(Append(ext.content, c)),
                   written |-> <<>>]
        /\ UNCHANGED <<docs, files, annotations, notes, now, last, hist, scan, fs, wm, reply,
                       stores, cfg, asked, pool, srv, edits>>

\* create_annotation_note writes the document of a new annotation
WriteNote ==
    \E text \in SelectedTexts :
        /\ ext.content = <<>>
        /\ ext' = [content |-> note_content(text),
                   notes |-> extract_notes_content(note_content(text)),
                   written |-> <<text>>]
        /\ UNCHANGED <<docs, files, annotations, notes, now, last, hist, scan, fs, wm, reply,
                       stores, cfg, asked, pool, srv, edits>>

NextNotes == NoteType \/ WriteNote

SpecNotes == Init /\ [][NextNotes]_vars

\* ======================================================= claims C1 .. C10
\* every bracket of the document has its partner
Balanced(lines) == ScanLoop(lines, 1, 1, <<>>, <<>>).ok

CharAt(lines, line, char) == lines[line + 1][char + 1]

\* C1 (as claimed): after any sequence of createAnnotation and
\* deleteAnnotation commands, the id in the front matter of the note
\* document of every surviving record equals the record's annotation_id.
C1_NoteIdIsRecordId ==
    \A a \in annotations :
        a.note_file \in DOMAIN notes => notes[a.note_file].id = a.annotation_id

\* C2: after any sequence of successful commands on documents that start
\* without brackets, the records of a document carry exactly the ids 1..N,
\* N the number of spans of the document, and the record with id i is the
\* one created together with the left bracket that is now the i-th in
\* position order.
C2_IdsAreRanks ==
    \A f \in Files :
        LET ranges == find_annotation_ranges(docs[f])
            rows == RowsOf(Store, f)
        IN  /\ ranges.ok
            /\ Cardinality(rows) = Len(ranges.spans)
            /\ {a.annotation_id : a \in rows} = 1..Len(ranges.spans)
            /\ \A a \in rows :
                  LET span == ranges.spans[a.annotation_id]
                  IN  CharAt(docs[f], span[1], span[2]).by = a.by

\* C2 witness: a delete has renumbered a document that still has two
\* records, and these are not numbered in the order they were created in
C2_Witness ==
    /\ last.cmd = "delete" /\ last.success /\ Len(last.order) >= 1
    /\ \E f \in Files : \E a, b \in RowsOf(Store, f) :
            a.annotation_id < b.annotation_id /\ a.by > b.by

\* the rows pre with the ids >= k of document f shifted by delta
Shifted(pre, f, k, delta) ==
    {IF /\ FileRows(Store, f) # {}
        /\ a.file_id = FileId(Store, f)
        /\ a.annotation_id >= k
     THEN [a EXCEPT !.annotation_id = @ + delta]
     ELSE a : a \in pre}

Moved(pre, f, k) ==
    {a \in pre : /\ FileRows(Store, f) # {}
                 /\ a.file_id = FileId(Store, f)
                 /\ a.annotation_id >= k}

LastCall == hist[Len(hist)]

\* C3: after increase_annotation_ids(file, k, +1) every record of the file
\* with a prior id >= k has its id incremented by exactly 1 and no other
\* record (lower ids, other files) changes.
C3_RenumberUp ==
    (hist # <<>> /\ LastCall.delta = 1) =>
        annotations = Shifted(LastCall.pre, LastCall.file, LastCall.k, 1)

\* C3 witness: a +1 renumber has moved two records and left another alone
C3_Witness ==
    /\ hist # <<>> /\ LastCall.delta = 1 /\ LastCall.ret
    /\ Cardinality(Moved(LastCall.pre, LastCall.file, LastCall.k)) >= 2
    /\ LastCall.pre # Moved(LastCall.pre, LastCall.file, LastCall.k)

RoundTrip ==
    /\ Len(hist) = 2
    /\ hist[1].delta = 1 /\ hist[2].delta = -1
    /\ hist[1].file = hist[2].file /\ hist[1].k = hist[2].k

\* C5: increase_annotation_ids(file, k, +1) followed by
\* increase_annotation_ids(file, k, -1) restores the rows: the same ids on
\* the same records with the same note files.
C5_RoundTrip == RoundTrip => annotations = hist[1].pre

\* C5 witness: a round trip that moved two records up and down again
C5_Witness ==
    /\ RoundTrip /\ hist[1].ret /\ hist[2].ret
    /\ Cardinality(Moved(hist[1].pre, hist[1].file, hist[1].k)) >= 2
    /\ hist[2].pre # hist[1].pre

Descending(s) == \A i, j \in 1..Len(s) : i < j => s[i] > s[j]
Ascending(s) == \A i, j \in 1..Len(s) : i < j => s[i] < s[j]

\* C6: the renumber step of a command walks the records from the highest id
\* to the lowest when the increment is positive (create) and from the
\* lowest to the highest when it is negative (delete), and no UPDATE of the
\* walk meets a row that already has the new (file_id, annotation_id).
C6_OrderAvoidsDuplicates ==
    /\ last.rn # "integrity"
    /\ last.cmd = "create" => Descending(last.order)
    /\ last.cmd = "delete" => Ascending(last.order)

\* C6 witness: a create has shifted two records
C6_Witness ==
    last.cmd = "create" /\ last.rn = "true" /\ Len(last.order) >= 2

\* C7 (as claimed): a command whose renumber step fails (an exception in
\* increase_annotation_ids) inserts, deletes and shifts no record.
C7_FailedRenumberAppliesNothing ==
    [][last'.rn \in {"integrity", "io"} => annotations' = annotations]_vars

\* C8 (as claimed): a command in which a step fails (renumbering, record
\* insert or delete, note creation, note deletion) returns a failure result.
C8_FailedStepFailsCommand ==
    (\/ last.rn \in {"integrity", "io"}
     \/ last.db = "fail"
     \/ last.note = "fail") => ~last.success

CommandOn(f) ==
    \/ \E start \in Positions(docs[f]), end \in Positions(docs[f]) : \E io \in Faults :
            PosLeq(start, end) /\ CreateWith(f, start, end, io, MaxFaulty)
    \/ \E position \in Positions(docs[f]) : \E io \in Faults :
            DeleteWith(f, position, io)

\* C9: a createAnnotation or deleteAnnotation command on a document with an
\* unmatched bracket returns a failure result and leaves the records, the
\* note documents and the document text unchanged.
C9_UnbalancedAborts ==
    [][\A f \in EnvFiles :
          (~Balanced(docs[f]) /\ CommandOn(f)) =>
              (~last'.success /\ UNCHANGED <<docs, files, annotations, notes>>)]_vars

\* C9 witness: a create has failed at the scan of a document that has an
\* unmatched bracket, in a project that has records
C9_Witness ==
    /\ last.cmd = "create" /\ ~last.success /\ last.db = "skip"
    /\ annotations # {}
    /\ \E f \in EnvFiles : ~Balanced(docs[f])

\* a project without records and notes, no file row but that of f, and no
\* bracket in f
Fresh(f) ==
    /\ annotations = {}
    /\ notes = <<>>
    /\ \A r \in files : r.path = f
    /\ Brackets(docs[f]) = {}

\* C10: createAnnotation on a fresh project leaves exactly one file row, one
\* record with annotation_id 1 and one note document whose id is 1.
C10_FirstCreate ==
    [][\A f \in Files :
          (/\ Fresh(f)
           /\ \E start \in Positions(docs[f]), end \in Positions(docs[f]) :
                 PosLeq(start, end) /\ CreateWith(f, start, end, NoFault, MaxAnnotations))
          => /\ last'.success
             /\ \E r \in files' : files' = {r} /\ r.path = f
             /\ \E a \in annotations' :
                   /\ annotations' = {a}
                   /\ a.annotation_id = 1
                   /\ \A r \in files' : a.file_id = r.id
                   /\ DOMAIN notes' = {a.note_file}
                   /\ notes'[a.note_file].id = 1
                   /\ notes'[a.note_file].file = f]_vars

\* C10 witness: the state a create on a fresh project has left
C10_Witness ==
    /\ last.cmd = "create" /\ last.success
    /\ Cardinality(annotations) = 1 /\ Cardinality(files) = 1
    /\ \E n \in DOMAIN notes : DOMAIN notes = {n} /\ notes[n].id = 1

\* ====================================================== claims C11 .. C20
\* the project right after its first createAnnotation, on document f
AfterFirstCreate(f) ==
    /\ last.cmd = "create" /\ last.success
    /\ \E r \in files : files = {r} /\ r.path = f
    /\ Cardinality(annotations) = 1
    /\ \A a \in annotations : a.annotation_id = 1 /\ DOMAIN notes = {a.note_file}

\* the deleteAnnotation command with the cursor in the span of identity 1
DeleteFirst(f) ==
    \E position \in Positions(docs[f]) :
        /\ get_annotation_at_position(docs[f], position) = [ok |-> TRUE, id |-> 1]
        /\ DeleteWith(f, position, NoFault)

\* C11 (as claimed): after a createAnnotation on a fresh project, the
\* deleteAnnotation for that identity removes the files row, the
\* annotations row and the note document, and listAnnotations returns an
\* empty list for the file.
C11_DeleteRemovesBothRows ==
    [][\A f \in Files :
          (AfterFirstCreate(f) /\ DeleteFirst(f)) =>
              /\ files' = {}
              /\ annotations' = {}
              /\ notes' = <<>>
              /\ list_annotations(Store, f)' = <<>>]_vars

\* C11 (amended): after a createAnnotation on a fresh project, the
\* deleteAnnotation for that identity removes the annotations row and the
\* note document and keeps the files row, and listAnnotations returns an
\* empty list for the file.
C11_DeleteRemovesRecordAndNote ==
    [][\A f \in Files :
          (AfterFirstCreate(f) /\ DeleteFirst(f)) =>
              /\ last'.success
              /\ files' = files
              /\ annotations' = {}
              /\ notes' = <<>>
              /\ list_annotations(Store, f)' = <<>>]_vars

\* C11 witness: a delete has removed the only record of a project
C11_Witness ==
    /\ last.cmd = "delete" /\ last.success /\ last.db = "ok" /\ last.note = "ok"
    /\ annotations = {} /\ notes = <<>> /\ Cardinality(files) = 1

\* C12 (as claimed): after any sequence of createAnnotation and
\* deleteAnnotation commands, however close together in time, no two
\* records name the same note file and the note documents present are
\* exactly those named by the records.
C12_OwnNoteDocument ==
    /\ \A a, b \in annotations : a # b => a.note_file # b.note_file
    /\ DOMAIN notes = {a.note_file : a \in annotations}

NoDuplicateKey ==
    \A a, b \in annotations :
        (a.file_id = b.file_id /\ a.annotation_id = b.annotation_id) => a = b

\* C13: DatabaseManager.create_annotation(file, id) raises DatabaseError
\* when a row with the same (file_id, annotation_id) exists and then leaves
\* the rows of table annotations unchanged; no reachable state of the
\* store has two rows with the same (file_id, annotation_id).
C13_DuplicateRejected ==
    /\ []NoDuplicateKey
    /\ [][\A f \in Files : \A k \in 1..MaxId :
            (/\ \E a \in RowsOf(Store, f) : a.annotation_id = k
             /\ StoreCreateWith(f, k))
            => /\ db_create_annotation(Store, f, k, now).raised
               /\ annotations' = annotations]_vars

\* C13 witness: a create for a (file, id) that has a row has just failed
C13_Witness ==
    /\ Len(hist) = 1 /\ hist[1].op = "create" /\ ~hist[1].ret
    /\ annotations = hist[1].pre
    /\ \E a \in RowsOf(Store, hist[1].file) : a.annotation_id = hist[1].k

\* the scanned text and, independently of the scanner, its brackets in
\* reading order, the nesting depth after the first n of them, and the
\* pairs of brackets that belong together
Text == docs[F2]

RECURSIVE PosSeq(_)
PosSeq(S) ==
    IF S = {} THEN <<>>
    ELSE LET p == CHOOSE p \in S : \A q \in S : p = q \/ TupleLess(p, q)
         IN  <<p>> \o PosSeq(S \ {p})

BracketSeq(lines) == PosSeq(Brackets(lines))

IsLeft(lines, p) == CharAt(lines, p[1], p[2]).ch = left_bracket

Depth(lines, ps, n) ==
    Cardinality({i \in 1..n : IsLeft(lines, ps[i])})
        - Cardinality({i \in 1..n : ~IsLeft(lines, ps[i])})

WellNestedSeq(lines, ps) ==
    /\ \A n \in 1..Len(ps) : Depth(lines, ps, n) >= 0
    /\ Depth(lines, ps, Len(ps)) = 0

WellNested(lines) == WellNestedSeq(lines, BracketSeq(lines))

\* one bracket too many: the text is well nested without one of its brackets
OneUnmatched(lines) ==
    LET ps == BracketSeq(lines) IN
    \E i \in 1..Len(ps) :
        WellNestedSeq(lines, SubSeq(ps, 1, i - 1) \o SubSeq(ps, i + 1, Len(ps)))

Pairs(lines) ==
    LET ps == BracketSeq(lines) IN
    {ps[i] \o ps[j] : <<i, j>> \in
        {<<i, j>> \in (1..Len(ps)) \X (1..Len(ps)) :
            /\ i < j
            /\ IsLeft(lines, ps[i]) /\ ~IsLeft(lines, ps[j])
            /\ WellNestedSeq(lines, SubSeq(ps, i + 1, j - 1))}}

StartOf(span) == <<span[1], span[2]>>
EndOf(span) == <<span[3], span[4]>>
StrictlyInside(p, span) == TupleLess(StartOf(span), p) /\ TupleLess(p, EndOf(span))
StrictlyOutside(p, span) == TupleLess(p, StartOf(span)) \/ TupleLess(EndOf(span), p)
Failure == [ok |-> FALSE, spans |-> <<>>]

\* C14: for a text with exactly one unmatched bracket, open or close,
\* find_annotation_ranges_raw and find_annotation_ranges both return None,
\* never a list, whatever balanced pairs surround the bracket.
C14_OneUnmatchedFails ==
    OneUnmatched(Text) => scan.raw = Failure /\ scan.ordered = Failure

\* C14 witness: a scanned text with two pairs and an unmatched bracket
\* between them
C14_Witness ==
    /\ OneUnmatched(Text) /\ ~scan.raw.ok
    /\ LET ps == BracketSeq(Text) IN
        /\ Len(ps) = 5
        /\ WellNestedSeq(Text, SubSeq(ps, 1, 1) \o SubSeq(ps, 5, 5))
        /\ \E i \in 2..4 :
              WellNestedSeq(Text, SubSeq(ps, 1, i - 1) \o SubSeq(ps, i + 1, 5))

\* C15: for a text of N well-nested bracket pairs find_annotation_ranges
\* returns N spans, get_annotation_at_position returns an id in 1..N at
\* every position strictly inside a span and None at every position
\* strictly outside all spans.
C15_WellNestedSpans ==
    WellNested(Text) =>
        LET N == Cardinality({p \in Brackets(Text) : IsLeft(Text, p)}) IN
        /\ scan.ordered.ok
        /\ Len(scan.ordered.spans) = N
        /\ \A p \in Positions(Text) :
              /\ (\E s \in Pairs(Text) : StrictlyInside(p, s))
                    => (scan.at[p].ok /\ scan.at[p].id \in 1..N)
              /\ (\A s \in Pairs(Text) : StrictlyOutside(p, s)) => ~scan.at[p].ok

\* C15 witness: a scanned text of three pairs, with a position inside a
\* span and a position outside all of them on the line of a span
C15_Witness ==
    /\ WellNested(Text) /\ Len(scan.ordered.spans) = 3
    /\ \E p \in Positions(Text) : \E s \in Pairs(Text) :
          StrictlyInside(p, s) /\ scan.at[p].ok
    /\ \E p \in Positions(Text) : \E s \in Pairs(Text) :
          /\ \A t \in Pairs(Text) : StrictlyOutside(p, t)
          /\ p[1] = s[1] /\ ~scan.at[p].ok

Range(s) == {s[i] : i \in 1..Len(s)}
Encloses(A, B) == TupleLess(StartOf(A), StartOf(B)) /\ TupleLess(EndOf(B), EndOf(A))
\* 1-based place of a span in a list without repetitions
Place(s, span) == CHOOSE i \in 1..Len(s) : s[i] = span

\* C16: for a balanced text find_annotation_ranges is a permutation of
\* find_annotation_ranges_raw with strictly increasing start positions,
\* find_annotation_ranges_raw lists the spans by increasing close bracket,
\* and a span that encloses another comes after it in the raw list and
\* before it in the sorted list.
C16_TwoOrders ==
    WellNested(Text) =>
        LET R == scan.raw.spans
            L == scan.ordered.spans
        IN  /\ scan.raw.ok /\ scan.ordered.ok
            /\ Range(R) = Pairs(Text) /\ Len(R) = Cardinality(Pairs(Text))
            /\ Range(L) = Range(R) /\ Len(L) = Len(R)
            /\ \A i, j \in 1..Len(L) : i < j => TupleLess(StartOf(L[i]), StartOf(L[j]))
            /\ \A i, j \in 1..Len(R) : i < j => TupleLess(EndOf(R[i]), EndOf(R[j]))
            /\ \A A, B \in Pairs(Text) :
                  Encloses(A, B) => Place(R, B) < Place(R, A) /\ Place(L, A) < Place(L, B)

\* C16 witness: a span that encloses another with text between them, as in
\* LxLxRxR: raw = [inner, outer], sorted = [outer, inner]
C16_Witness ==
    /\ WellNested(Text) /\ Len(scan.raw.spans) = 2
    /\ Encloses(scan.raw.spans[2], scan.raw.spans[1])
    /\ scan.ordered.spans = <<scan.raw.spans[2], scan.raw.spans[1]>>
    /\ scan.raw.spans[1][2] > scan.raw.spans[2][2] + 1

ContainsInclusive(span, p) ==
    (StartOf(span) = p \/ TupleLess(StartOf(span), p))
        /\ (EndOf(span) = p \/ TupleLess(p, EndOf(span)))
Rank(lines, span) ==
    1 + Cardinality({t \in Pairs(lines) : TupleLess(StartOf(t), StartOf(span))})

\* C17: in a balanced text get_annotation_at_position returns, for a
\* position that some span contains (both brackets included), the rank in
\* position order of the first span of the raw list that contains it, which
\* is the innermost span around the position, and None for a position no
\* span contains.
C17_SpanAt ==
    WellNested(Text) =>
        \A p \in Positions(Text) :
            LET around == {s \in Pairs(Text) : ContainsInclusive(s, p)} IN
            IF around = {} THEN ~scan.at[p].ok
            ELSE LET inner == CHOOSE s \in around :
                                \A t \in around : t = s \/ Encloses(t, s)
                     first == CHOOSE s \in around :
                                \A t \in around :
                                    Place(scan.raw.spans, s) <= Place(scan.raw.spans, t)
                 IN  /\ \E s \in around : \A t \in around : t = s \/ Encloses(t, s)
                     /\ first = inner
                     /\ scan.at[p] = [ok |-> TRUE, id |-> Rank(Text, inner)]

\* C17 witness: the position of the close bracket of a nested span, whose
\* rank 2 differs from its place 1 in the raw list
C17_Witness ==
    /\ WellNested(Text)
    /\ \E p \in Positions(Text) :
          /\ scan.at[p] = [ok |-> TRUE, id |-> 2]
          /\ Len(scan.raw.spans) >= 2 /\ EndOf(scan.raw.spans[1]) = p
          /\ Cardinality({s \in Pairs(Text) : ContainsInclusive(s, p)}) = 2

\* the rank of the span that starts at position p in a text
RankOfSpanAt(lines, p) ==
    LET L == find_annotation_ranges(lines).spans IN
    CHOOSE i \in 1..Len(L) : StartOf(L[i]) = p

Projects == 1..Len(wm.objs)
RootPath(i) == wm.objs[i].root_path
Above(path) == {i \in Projects : IsPrefix(RootPath(i), path)}
ProperlyAbove(path) == {i \in Above(path) : RootPath(i) # path}
ForestRoots == {wm.roots[i] : i \in 1..Len(wm.roots)}

C20_NearestParent ==
    \A i \in Projects :
        IF ProperlyAbove(RootPath(i)) = {}
        THEN wm.objs[i].parent = 0 /\ i \in ForestRoots
        ELSE /\ i \notin ForestRoots
             /\ wm.objs[i].parent \in ProperlyAbove(RootPath(i))
             /\ \A j \in ProperlyAbove(RootPath(i)) :
                   Len(RootPath(j)) <= Len(RootPath(wm.objs[i].parent))

\* ====================================================== claims C21 .. C30
\* the Workspace objects the manager holds: those of the trees of _roots
\* and those of the index
Linked(m) ==
    UNION {Range(get_subtree_workspaces(m.objs, m.roots[i])) : i \in 1..Len(m.roots)}
Indexed(m) == {m.all[i].ws : i \in 1..Len(m.all)}
Held(m) == Linked(m) \cup Indexed(m)

\* C21 (as claimed): after any sequence of add_workspace calls no two
\* Workspace objects held by the manager have the same root path, and an
\* index entry never changes the Workspace it refers to.
C21_KnownProjectSkipped ==
    /\ [](\A i, j \in Held(wm) : RootPath(i) = RootPath(j) => i = j)
    /\ [][\A k \in 1..Len(wm.all) :
            /\ Has(wm'.all, wm.all[k].uri)
            /\ Get(wm'.all, wm.all[k].uri) = wm.all[k].ws]_vars

\* C22 (as claimed): when add_workspace returns None it has constructed no
\* Workspace and left _roots, the parent and children links and the index
\* as they were; otherwise the Workspace it returns is in a tree of _roots
\* and in the index.
C22_NoneIsNoOp ==
    reply.op = "add" =>
        IF reply.ws = 0 THEN wm = reply.pre
        ELSE reply.ws \in Linked(wm) /\ reply.ws \in Indexed(wm)

\* the Workspace a remove_workspace call was made for, and the subtree it
\* had before the call
Removed == Get(reply.pre.all, reply.uri)
RemovedSubtree == Range(get_subtree_workspaces(reply.pre.objs, Removed))
WasRoot == \E i \in 1..Len(reply.pre.roots) : reply.pre.roots[i] = Removed

\* C23 (as claimed): after remove_workspace has returned True for a root
\* project no index entry, under any uri, refers to a project of the removed
\* subtree and get_workspace returns none of them; after it has returned
\* True for another project, that project is detached from its parent and
\* every other project keeps its parent and its children, and _roots is
\* unchanged.
C23_RemovedIsGone ==
    (reply.op = "remove" /\ reply.removed) =>
        IF WasRoot
        THEN /\ Indexed(wm) \cap RemovedSubtree = {}
             /\ \A file \in FilePaths : get_workspace(wm, file) \notin RemovedSubtree
        ELSE /\ wm.objs[Removed].parent = 0
             /\ wm.roots = reply.pre.roots
             /\ \A i \in Projects \ {Removed} :
                   /\ wm.objs[i].parent = reply.pre.objs[i].parent
                   /\ wm.objs[i].children = Without(reply.pre.objs[i].children, Removed)

\* the root path of the registered project nearest above a document, and
\* the rows and notes a project's store holds for a document
RootsAbove(f) == {RootPath(i) : i \in Above(Location(f))}
NearestRoot(f) == CHOOSE d \in RootsAbove(f) : \A g \in RootsAbove(f) : Len(g) <= Len(d)
RowsFor(d, f) == RowsOf(stores[d], uri_to_relative_path(Location(f), d))
NotesFor(d, f) ==
    {n \in DOMAIN stores[d].notes :
        stores[d].notes[n].file = uri_to_relative_path(Location(f), d)}

Requested(options) ==
    [left_bracket |-> IF "leftBracket" \in DOMAIN options THEN options["leftBracket"]
                      ELSE DEFAULT_CONFIG.left_bracket,
     right_bracket |-> IF "rightBracket" \in DOMAIN options THEN options["rightBracket"]
                       ELSE DEFAULT_CONFIG.right_bracket]

DelimSeq(lines, d) ==
    PosSeq({p \in Positions(lines) :
              /\ p[2] < Len(lines[p[1] + 1])
              /\ CharAt(lines, p[1], p[2]).ch \in {d.left_bracket, d.right_bracket}})

DepthWith(lines, ps, n, d) ==
    Cardinality({i \in 1..n : CharAt(lines, ps[i][1], ps[i][2]).ch = d.left_bracket})
        - Cardinality({i \in 1..n : CharAt(lines, ps[i][1], ps[i][2]).ch = d.right_bracket})

NestedWith(lines, ps, d) ==
    /\ \A n \in 1..Len(ps) : DepthWith(lines, ps, n, d) >= 0
    /\ DepthWith(lines, ps, Len(ps), d) = 0

PairsWith(lines, d) ==
    LET ps == DelimSeq(lines, d) IN
    {ps[i] \o ps[j] : <<i, j>> \in
        {<<i, j>> \in (1..Len(ps)) \X (1..Len(ps)) :
            /\ i < j
            /\ CharAt(lines, ps[i][1], ps[i][2]).ch = d.left_bracket
            /\ CharAt(lines, ps[j][1], ps[j][2]).ch = d.right_bracket
            /\ NestedWith(lines, SubSeq(ps, i + 1, j - 1), d)}}

\* C25 (as claimed): after an initialize request the scanner reads the
\* delimiters of the options of the first request (the default for an
\* option that is absent), and find_annotation_ranges_raw returns the
\* pairs of the text under these two delimiters.
C25_OptionsApplied ==
    asked # <<>> =>
        LET d == Requested(asked[1])
            raw == find_annotation_ranges_raw(Text)
        IN  /\ left_bracket = d.left_bracket
            /\ right_bracket = d.right_bracket
            /\ IF NestedWith(Text, DelimSeq(Text, d), d)
               THEN raw.ok /\ Range(raw.spans) = PairsWith(Text, d)
               ELSE ~raw.ok

\* C26: once the configuration is initialized (_config is not None), an
\* initialize request, whatever its options, leaves the delimiters the
\* scanner reads and the result of the scanner on the text as they were.
C26_LaterInitializeKeeps ==
    [][(cfg.manager # <<>> /\ asked' # asked) =>
          /\ left_bracket' = left_bracket
          /\ right_bracket' = right_bracket
          /\ find_annotation_ranges_raw(Text)' = find_annotation_ranges_raw(Text)]_vars

\* C26 witness: a request without options, then a request with both
\* options, on a text with one span in the delimiters in use
C26_Witness ==
    /\ Len(asked) = 2
    /\ DOMAIN asked[1] = {} /\ DOMAIN asked[2] = OptionKeys
    /\ cfg.manager = <<cfg.config>>
    /\ Len(find_annotation_ranges_raw(Text).spans) = 1

\* C27: after any sequence of init_db calls on one DatabaseManager its pool
\* holds at most max_connections connections, one for each database path.
C27_PoolBounded ==
    /\ Len(pool.db.connections) <= max_connections
    /\ \A i, j \in 1..Len(pool.db.connections) :
          pool.db.connections[i] = pool.db.connections[j] => i = j

\* C27 witness: a call on a full pool that opened one more database
C27_Witness ==
    /\ Len(pool.db.connections) = max_connections
    /\ pool.closed # <<>>
    /\ pool.db.connections[max_connections] = db_path(pool.root)

\* what an init_db call opened: the database that is current after it and
\* was not pooled before it
Opened == pool.db.current_db

\* C28: an init_db call that opens a new database on a full pool closes
\* exactly one connection, the one inserted earliest, whichever database
\* is current; the others stay, in their order, and the new one is last.
C28_EvictsEarliest ==
    [][(/\ Len(pool.db.connections) = max_connections
        /\ ~InPool(pool.db.connections, Opened')) =>
          /\ pool'.closed = <<Head(pool.db.connections)>>
          /\ pool'.db.connections = Append(Tail(pool.db.connections), Opened')]_vars

\* C28 witness: the connection closed was the current one, selected again
\* after every other connection of the pool had been inserted
C28_Witness ==
    /\ Len(pool.closed) = 1
    /\ pool.was_current
    /\ Len(pool.db.connections) = max_connections

\* the annotation ids of the rows of a document
IdsOf(st, path) == {a.annotation_id : a \in RowsOf(st, path)}

\* C29: when a command issues its edit of the buffer, the store already
\* holds the rows of the edited text: the record is inserted or deleted
\* and the ids are renumbered to 1..n, n the number of spans after the edit.
C29_EditAfterStore ==
    [][\A f \in Files : docs'[f] # docs[f] =>
          /\ find_annotation_ranges(docs'[f]).ok
          /\ IdsOf(Store, f) = 1..Len(find_annotation_ranges(docs'[f]).spans)]_vars

\* a handler between its first and its last call that changes the store
InRegion(fr) ==
    \/ fr.req.cmd = "create" /\ fr.pc \in {"insert", "edit", "note"}
    \/ fr.req.cmd = "delete" /\ fr.pc \in {"edit", "renumber", "note"}

\* the statement a handler is at is a call that changes the store
AtStoreCall(fr) == fr.pc \in {"renumber", "insert", "delete", "note"}

\* the command of a frame as one step from the state the handler was called in
Whole(fr) ==
    IF fr.req.cmd = "create"
    THEN create_annotation(fr.pre[1].st, fr.pre[1].lines, fr.req.f, fr.req.start,
                           fr.req.end, now, NoFault)
    ELSE delete_annotation(fr.pre[1].st, fr.pre[1].lines, fr.req.f, fr.req.start, NoFault)

C31_NoFileRecord ==
    /\ \A f \in Files : FileRows(Store, f) = {} =>
          \A from_id \in 0..(MaxAnnotations + 1) : \A increment \in {1, -1} :
              /\ ~increase_annotation_ids(Store, f, from_id, increment, 0).ret
              /\ increase_annotation_ids(Store, f, from_id, increment, 0).st = Store
    /\ last.rn = "nofile" => last.order = <<>>

\* C31 witness: the first createAnnotation of the first document has made
\* the call; the second document has no row in files while another
\* document has rows and notes
C31_Witness ==
    /\ last.cmd = "create" /\ last.rn = "nofile"
    /\ FileRows(Store, F2) = {}
    /\ annotations # {} /\ DOMAIN notes # {}

\* the AnnotationRecords of a file with an id: rows of table annotations
\* joined with table files on the path
Matching(f, id) ==
    {a \in annotations :
        a.annotation_id = id /\ \E fr \in files : fr.path = f /\ fr.id = a.file_id}

\* C32: DatabaseManager.delete_annotation(file, id) removes the matching
\* row, at most one, and no other; it returns True exactly when a row was
\* removed; tables files and the note documents stay as they are. The
\* same holds of the call deleteAnnotation makes: the step removes one
\* row, the one of its annotation id, and touches no note document.
C32_DeleteExact ==
    /\ [](\A f \in Files : \A id \in 0..(MaxServed + 1) :
            /\ Cardinality(Matching(f, id)) <= 1
            /\ db_delete_annotation(Store, f, id).st =
                  [Store EXCEPT !.annotations = @ \ Matching(f, id)]
            /\ db_delete_annotation(Store, f, id).ret <=> Matching(f, id) # {})
    /\ [][\A h \in Slots :
            (srv.frames[h].pc = "delete" /\ srv'.frames[h] # srv.frames[h]) =>
                /\ annotations' = annotations \ Matching(srv.frames[h].req.f, srv.frames[h].id)
                /\ Cardinality(annotations') = Cardinality(annotations) - 1
                /\ notes' = notes /\ files' = files]_vars

\* C32 witness: the record of the first of two annotations is deleted, the
\* other record and a note document are there
C32_Witness ==
    \E h \in Slots :
        /\ srv.frames[h].req.cmd = "delete" /\ srv.frames[h].pc = "edit"
        /\ srv.frames[h].id = 1
        /\ Cardinality(annotations) = 1
        /\ DOMAIN notes # {}

\* C33: after any sequence of successful commands, listAnnotations on a
\* document returns one note file for each span of its text and no other:
\* the i-th entry is the note file of the row of that document with
\* annotation_id i, the row created together with the i-th span in
\* position order.
C33_ListInSpanOrder ==
    \A f \in Files :
        LET ranges == find_annotation_ranges(docs[f])
            note_files == list_annotations(Store, f)
        IN  /\ ranges.ok
            /\ Len(note_files) = Len(ranges.spans)
            /\ \A i \in 1..Len(note_files) :
                  \E a \in RowsOf(Store, f) :
                      /\ a.annotation_id = i
                      /\ a.note_file = note_files[i]
                      /\ a.by = CharAt(docs[f], ranges.spans[i][1], ranges.spans[i][2]).by

\* C33 witness: two annotations of the first document made in different
\* seconds, the later one placed before the earlier one, and a row of
\* the second document that the list leaves out
C33_Witness ==
    /\ list_annotations(Store, F1) = <<NoteFileName(1), NoteFileName(0)>>
    /\ RowsOf(Store, F2) # {}

\* the lines of a text as pairs of indices: the longest runs of characters
\* without a line break
WholeLines(c) ==
    {<<a, b>> \in (1..Len(c)) \X (1..Len(c)) :
        /\ a <= b
        /\ \A p \in a..b : c[p] \notin LineBreaks
        /\ a = 1 \/ c[a - 1] \in LineBreaks
        /\ b = Len(c) \/ c[b + 1] \in LineBreaks}

FirstOf(S) == CHOOSE l \in S : \A m \in S : l[1] <= m[1]

\* the text strictly after the line that ends at index b, its line ending
\* ("\n", "\r" or "\r\n") left out
AfterLine(c, b) ==
    IF b + 2 <= Len(c) /\ c[b + 1] = "\r" /\ c[b + 2] = "\n"
    THEN SubSeq(c, b + 3, Len(c))
    ELSE SubSeq(c, b + 2, Len(c))

\* a text with every line ending written as "\n"
RECURSIVE Normalised(_)
Normalised(s) ==
    IF s = <<>> THEN <<>>
    ELSE IF Head(s) = "\r" /\ Len(s) >= 2 /\ s[2] = "\n" THEN <<"\n">> \o Normalised(Tail(Tail(s)))
    ELSE IF Head(s) = "\r" THEN <<"\n">> \o Normalised(Tail(s))
    ELSE <<Head(s)>> \o Normalised(Tail(s))

ExactHeaders(c) == {l \in WholeLines(c) : SubSeq(c, l[1], l[2]) = <<NotesHeader>>}
StrippedHeaders(c) == {l \in WholeLines(c) : strip(SubSeq(c, l[1], l[2])) = <<NotesHeader>>}

\* C34 (as claimed): extract_notes_content returns, trimmed, everything
\* strictly after the first line that is exactly "## Notes", and the empty
\* text when no line is exactly "## Notes".
C34_ExactHeader ==
    ext.notes = IF ExactHeaders(ext.content) = {} THEN <<>>
                ELSE strip(AfterLine(ext.content, FirstOf(ExactHeaders(ext.content))[2]))

\* C34 (amended): extract_notes_content returns, trimmed and with every
\* line ending written as "\n", everything strictly after the first line
\* that is "## Notes" once the whitespace around it is stripped, and the
\* empty text when no line is.
C34_StrippedHeader ==
    ext.notes = IF StrippedHeaders(ext.content) = {} THEN <<>>
                ELSE strip(Normalised(AfterLine(ext.content,
                                                FirstOf(StrippedHeaders(ext.content))[2])))

\* C34 witness: a header line with a space before it, then two lines
\* separated by "\r"
C34_Witness ==
    /\ ext.content = <<" ", NotesHeader, "\n", "x", "\r", "x">>
    /\ ext.notes = <<"x", "\n", "x">>

\* C35: the document create_annotation_note writes for a selected text,
\* whatever the text, has an empty Notes section: extract_notes_content
\* returns the empty text on it.
C35_FreshNoteIsEmpty == ext.written # <<>> => ext.notes = <<>>

\* the id next to c among 1..n: c itself, the one after (1 after n) or the
\* one before (n before 1)
Neighbour(n, c, offset) ==
    IF offset = 0 THEN c
    ELSE IF offset = 1 THEN (IF c = n THEN 1 ELSE c + 1)
    ELSE (IF c = 1 THEN n ELSE c - 1)

SpansOf(f) == find_annotation_ranges(docs[f])

\* C36 (as claimed): with n >= 1 spans in the source document and the id c
\* of the note in 1..n, get_annotation_source returns the neighbour of c
\* for the offset, an id in 1..n; with no span it returns None.
C36_Navigate ==
    \A note_file \in DOMAIN notes : \A offset \in {-1, 0, 1} :
        LET c == notes[note_file].id
            n == Len(SpansOf(notes[note_file].file).spans)
            r == get_annotation_source(Store, docs, note_file, offset)
        IN  SpansOf(notes[note_file].file).ok =>
                /\ (n >= 1 /\ c \in 1..n) =>
                      r.found /\ r.annotation_id = Neighbour(n, c, offset)
                              /\ r.annotation_id \in 1..n
                /\ n = 0 => ~r.found

Recorded(f, id) == id \in IdsOf(Store, f)

\* C36 (amended): with n >= 1 spans in the source document and the id c of
\* the note in 1..n, get_annotation_source answers exactly when the source
\* file has a record with the neighbour of c for the offset, and then it
\* returns that neighbour, an id in 1..n; with no span it returns None.
C36_NavigateRecorded ==
    \A note_file \in DOMAIN notes : \A offset \in {-1, 0, 1} :
        LET c == notes[note_file].id
            f == notes[note_file].file
            n == Len(SpansOf(f).spans)
            r == get_annotation_source(Store, docs, note_file, offset)
        IN  SpansOf(f).ok =>
                /\ (n >= 1 /\ c \in 1..n) =>
                      /\ r.found <=> Recorded(f, Neighbour(n, c, offset))
                      /\ r.found => /\ r.annotation_id = Neighbour(n, c, offset)
                                     /\ r.annotation_id \in 1..n
                /\ n = 0 => ~r.found

\* C36 witness: from the note of the last of two recorded annotations the
\* next annotation is the first one, and from the first the previous is
\* the last.
C36_Witness ==
    \E note_file \in DOMAIN notes, other \in DOMAIN notes :
        LET f == notes[note_file].file
        IN  /\ SpansOf(f).ok /\ Len(SpansOf(f).spans) = 2
            /\ notes[note_file].id = 2 /\ notes[other].id = 1
            /\ notes[other].file = f
            /\ get_annotation_source(Store, docs, note_file, 1).found
            /\ get_annotation_source(Store, docs, note_file, 1).annotation_id = 1
            /\ get_annotation_source(Store, docs, other, -1).found
            /\ get_annotation_source(Store, docs, other, -1).annotation_id = 2

\* C37: the documents start balanced and stay balanced under the create
\* commands (any selection whose start is not after its end, inside, around
\* or across the spans there are) and the delete commands: the raw scan
\* never fails on them.
C37_StaysBalanced == \A f \in Files : find_annotation_ranges_raw(docs[f]).ok

\* C37 witness: a delete command has succeeded on a document that still
\* holds two spans, one opened inside the other, as a selection inside or
\* across a span leaves them.
C37_Witness ==
    /\ last.cmd = "delete" /\ last.success
    /\ LET r == find_annotation_ranges(docs[F1]) IN
        /\ r.ok /\ Len(r.spans) = 2
        /\ PosLeq(<<r.spans[2][1], r.spans[2][2]>>, <<r.spans[1][3], r.spans[1][4]>>)

\* C38 (as claimed): when commands were processed before the edits of
\* earlier commands had reached the server's copy of the document, then,
\* once every edit is applied, the records of the document carry the ids
\* 1..N of its N spans and the record with id i is the one created with the
\* left bracket that is now the i-th in position order.
C38_AgreeAfterLag ==
    edits = <<>> =>
        LET ranges == find_annotation_ranges(docs[F1])
            rows == RowsOf(Store, F1)
        IN  /\ ranges.ok
            /\ Cardinality(rows) = Len(ranges.spans)
            /\ {a.annotation_id : a \in rows} = 1..Len(ranges.spans)
            /\ \A a \in rows :
                  LET span == ranges.spans[a.annotation_id]
                  IN  CharAt(docs[F1], span[1], span[2]).by = a.by

\* C39 (as claimed): in every state reached by add_workspace and
\* remove_workspace calls, the index refers to exactly the projects of the
\* trees of _roots, and a project listed among the children of a project
\* held by the manager has that project as its parent.
C39_IndexIsForest ==
    /\ Indexed(wm) = Linked(wm)
    /\ \A i \in Held(wm) : \A k \in 1..Len(wm.objs[i].children) :
            wm.objs[wm.objs[i].children[k]].parent = i

\* DatabaseManager._get_conn returns a connection (it does not raise
\* "No database connection")
Connected(db) == db.current_db # <<>> /\ InPool(db.connections, db.current_db)

\* C40: after any sequence of init_db calls, evictions included, the
\* current database is a key of the pool: once init_db has been called
\* _get_conn finds a connection.
C40_CurrentIsPooled == pool.db.project_root # 0 => Connected(pool.db)

\* C40 witness: the call closed the connection of the database that was
\* current, and the database it opened is current and pooled
C40_Witness ==
    /\ pool.was_current /\ pool.closed # <<>>
    /\ pool.db.current_db = db_path(pool.root)
    /\ Connected(pool.db)
====
